---- MODULE Spec2Model ----
(***************************************************************************)
(* Peer-to-peer chunked file transfer: the manual (copy/paste SDP)         *)
(* component ManualLocalhostP2PFileTransfer and the broker (PeerJS) App.   *)
(* Two endpoints, "A" and "B", run the same component; `variant` says      *)
(* which one.  File bytes are modelled as byte ranges of a named file, so  *)
(* that CHUNK_SIZE keeps its real value.                                   *)
(***************************************************************************)
EXTENDS Integers, Sequences, FiniteSets, TLC

\* ------------------------------------------------------------------ bounds
\* How many sendFile invocations one behaviour of Spec may start.
MaxSends == 1
\* How many sendFile invocations one behaviour of SpecOverlap may start.
MaxOverlap == 2
\* Peer connections one endpoint creates in a handshake run.
MaxSessions == 2
\* Messages one endpoint is handed by a peer that is not the component.
MaxReceived == 7
MaxExtra == 3
MaxWire == 4

\* ------------------------------------------------------------- constants
\* const CHUNK_SIZE = 64 * 1024
CHUNK_SIZE == 65536

Endpoints == {"A", "B"}
Peer(e) == IF e = "A" THEN "B" ELSE "A"
Variants == {"manual", "broker"}

\* The endpoints whose operator selects and sends files.
Senders == {"A"}

\* The File objects an operator can select: name, type (File.type, already
\* lower case, possibly empty) and size in bytes.
Files ==
  { [name |-> "empty.bin", type |-> "", size |-> 0],
    [name |-> "doc.txt", type |-> "text/plain", size |-> 200000],
    [name |-> "big.bin", type |-> "", size |-> 4 * CHUNK_SIZE + 1] }

\* The files of the overlapping-sends scenarios.  Two manual invocations
\* interleave only when one is suspended in the backlog wait, which takes more
\* than four queued chunks; two broker invocations interleave at every chunk,
\* and two-chunk files keep that small.
OverlapFiles(v) ==
  IF v = "manual"
  THEN { [name |-> "doc.txt", type |-> "text/plain", size |-> 200000],
         [name |-> "big.bin", type |-> "", size |-> 4 * CHUNK_SIZE + 1] }
  ELSE { [name |-> "two.bin", type |-> "", size |-> CHUNK_SIZE + 1],
         [name |-> "pair.bin", type |-> "text/plain", size |-> 2 * CHUNK_SIZE] }

\* null of a ref or of a nullable state
Null == [null |-> TRUE]

\* No data connection with a third peer.
NoExtra == [state |-> "none", n |-> 0]

\* An array slot that was never written (a hole of `new Array(n)`).
Hole == [src |-> "hole", from |-> 0, to |-> 0, sid |-> 0, seq |-> 0]

\* ------------------------------------------------------------ pure helpers
Max(a, b) == IF a >= b THEN a ELSE b
Min(a, b) == IF a <= b THEN a ELSE b

\* Math.ceil(a / b) for integers a >= 0, b > 0
CeilDiv(a, b) == IF a % b = 0 THEN a \div b ELSE (a \div b) + 1

\* Mutant: Math.floor in place of Math.ceil.
TotalChunksFloor(size) == size \div CHUNK_SIZE

\* const totalChunks = Math.ceil(arrayBuffer.byteLength / CHUNK_SIZE)
TotalChunks(size) == CeilDiv(size, CHUNK_SIZE)

\* Mutant: the slice starts one byte late.
ChunkOfShifted(f, i) ==
  [src |-> f.name, from |-> Min(i * CHUNK_SIZE + 1, f.size),
   to |-> Min(i * CHUNK_SIZE + CHUNK_SIZE, f.size)]

\* Mutant: the slice ends one byte late.
ChunkOfLong(f, i) ==
  [src |-> f.name, from |-> i * CHUNK_SIZE,
   to |-> Min(i * CHUNK_SIZE + CHUNK_SIZE + 1, f.size)]

\* start = i * CHUNK_SIZE; end = Math.min(start + CHUNK_SIZE, byteLength);
\* arrayBuffer.slice(start, end): the bytes [start, end) of the file.
ChunkOf(f, i) ==
  [src |-> f.name, from |-> i * CHUNK_SIZE,
   to |-> Min(i * CHUNK_SIZE + CHUNK_SIZE, f.size)]

\* Math.round of the exact quotient a / b, b > 0: round half up.
RoundHalfUp(a, b) == (2 * a + b) \div (2 * b)

\* (done / total) * 100 in IEEE-754 double precision falls just below a half
\* that 100 * done / total hits exactly: the quotient is rounded to 53 bits
\* before the multiplication.  The exact value is a half only when the
\* reduced denominator divides 200, and of those fractions the product is
\* low for 23/40, 29/200, 57/200 and 113/200 (57.49999999999999 for 23/40).
HalfLost(done, total) ==
  \/ 40 * done = 23 * total
  \/ \E k \in {29, 57, 113} : 200 * done = k * total

\* Math.round(((i + 1) / totalChunks) * 100), totalChunks > 0, as the
\* double-precision expression evaluates.
Progress(done, total) ==
  RoundHalfUp(100 * done, total) - (IF HalfLost(done, total) THEN 1 ELSE 0)

\* Math.round((receivedCount / totalChunks) * 100) on the receiver, where
\* totalChunks may be 0: n / 0 is Infinity, written -1 here.
DownloadProgress(done, total) ==
  IF total = 0 THEN -1 ELSE Progress(done, total)

\* Number of decimal digits of n >= 0 (JSON.stringify of a number).
Digits(n) ==
  IF n < 10 THEN 1 ELSE IF n < 100 THEN 2 ELSE IF n < 1000 THEN 3
  ELSE IF n < 10000 THEN 4 ELSE IF n < 100000 THEN 5 ELSE 6

\* Length of a string of the model (TLC has no Len on strings).
StrLen(s) ==
  CASE s = "" -> 0
    [] s = "empty.bin" -> 9
    [] s = "doc.txt" -> 7
    [] s = "big.bin" -> 7
    [] s = "two.bin" -> 7
    [] s = "pair.bin" -> 8
    [] s = "text/plain" -> 10
    [] s = "application/octet-stream" -> 24
    [] OTHER -> 8

\* Bytes a message adds to the channel's bufferedAmount: the JSON text of a
\* control frame, the byte length of a binary chunk.
MsgBytes(m) ==
  CASE m.type = "file-start" ->
         71 + StrLen(m.name) + StrLen(m.fileType) + Digits(m.totalChunks)
            + Digits(m.totalSize)
    [] m.type = "file-end" -> 19
    [] OTHER -> m.data.to - m.data.from

RECURSIVE SumBytes(_)
SumBytes(q) == IF q = << >> THEN 0 ELSE MsgBytes(Head(q)) + SumBytes(Tail(q))

\* channel.bufferedAmount: the bytes queued by send() and not yet handed to
\* the transport.
BufferedAmount(q) == SumBytes(q)

\* Mutant: the sender waits whatever the gauge shows.
BackpressureAlways(amount) == TRUE

\* Mutant: the sender never waits.
BackpressureNever(amount) == FALSE

\* while (channel.bufferedAmount > CHUNK_SIZE * 4) await ...
BackpressureExceeded(amount) == amount > CHUNK_SIZE * 4

\* The bytes of a whole file, as one range (none for an empty file).
FileBytes(f) ==
  IF f.size = 0 THEN << >> ELSE << [src |-> f.name, from |-> 0, to |-> f.size] >>

\* A part as bytes only (the ghost tags sid and seq dropped).
Bytes(p) == [src |-> p.src, from |-> p.from, to |-> p.to]

\* The text a hole of the chunks array contributes to a Blob: the Blob
\* constructor converts a non-BlobPart element to a string, and a hole reads
\* as undefined, so the 9 bytes "undefined".
UndefinedText == [src |-> "undefined", from |-> 0, to |-> 9]

\* Concatenation of byte ranges, adjacent ranges of one file merged: equal
\* byte strings have equal representations.
RECURSIVE Coalesce(_, _)
Coalesce(acc, parts) ==
  IF parts = << >> THEN acc
  ELSE LET p == Head(parts)
           n == Len(acc)
       IN IF p.from = p.to /\ p.src # "undefined" THEN Coalesce(acc, Tail(parts))
          ELSE IF n > 0 /\ acc[n].src = p.src /\ acc[n].to = p.from
                    /\ p.src # "undefined"
          THEN Coalesce([acc EXCEPT ![n].to = p.to], Tail(parts))
          ELSE Coalesce(Append(acc, p), Tail(parts))

\* new Blob(transfer.chunks, ...): the parts in index order, a hole as the
\* text "undefined".
BlobData(chunks) ==
  Coalesce(<< >>, [k \in 1..Len(chunks) |->
                     IF chunks[k] = Hole THEN UndefinedText ELSE Bytes(chunks[k])])

RECURSIVE SumRanges(_)
SumRanges(d) ==
  IF d = << >> THEN 0 ELSE (Head(d).to - Head(d).from) + SumRanges(Tail(d))

\* blob.size
BlobSize(d) == SumRanges(d)

\* new Array(totalChunks)
NewArray(n) == [k \in 1..n |-> Hole]

\* chunks[idx] = v on a JavaScript array (0-based idx): a write past the end
\* extends the array, leaving holes in between.
WriteSlot(chunks, idx, v) ==
  IF idx < Len(chunks) THEN [chunks EXCEPT ![idx + 1] = v]
  ELSE [k \in 1..(idx + 1) |->
          IF k <= Len(chunks) THEN chunks[k] ELSE IF k = idx + 1 THEN v ELSE Hole]

\* ---------------------------------------------------------------- state
VARIABLES
  variant,              \* which component both endpoints run
  connectionStatus,     \* useState connectionStatus, per endpoint
  error,                \* useState error
  selectedFile,         \* useState selectedFile (a File or Null)
  receivedFiles,        \* useState receivedFiles (sequence of ReceivedFile)
  uploadProgress,       \* useState uploadProgress
  downloadProgress,     \* useState downloadProgress
  transferStatus,       \* useState transferStatus
  pcRef,                \* manual: pcRef.current (0 is null)
  dataChannelRef,       \* manual: dataChannelRef.current (0 is null)
  connectionRef,        \* broker: connectionRef.current (0 is null)
  incomingTransferRef,  \* incomingTransferRef.current (IncomingTransfer or Null)
  readyState,           \* the channel's readyState at each endpoint
  sendBuf,              \* messages queued by send() at each endpoint
  link,                 \* the transport between the endpoints: "up" or "down"
  sends,                \* the sendFile invocations, in invocation order
  resetTimers,          \* pending setTimeout(..., 1000) resets, per endpoint
  sentCount,            \* ghost: messages ever queued by each endpoint
  pc,                   \* manual: the RTCPeerConnection each endpoint created last
  orphans,              \* manual: earlier RTCPeerConnections, replaced but never closed
  localSdp,             \* manual: useState localSdp
  remoteSdp,            \* manual: useState remoteSdp
  clipboard,            \* manual: navigator.clipboard (both tabs share it)
  myPeerId,             \* broker: useState myPeerId ("" until the broker assigns one)
  isServerDisconnected, \* broker: useState isServerDisconnected
  peerDisconnected,     \* broker: peerRef.current.disconnected
  peerOpen,             \* broker: peerRef.current.open (registered with the broker)
  stale,                \* earlier channels of each endpoint, replaced or closed by
                        \* the component, whose close event is still to come
  extra,                \* broker: the data connection of each endpoint with a third
                        \* peer: its state and the messages it has delivered
  validTokens,          \* server: the Set validTokens
  db,                   \* server: the entries of storage/db.txt, in file order
  clock,                \* server: the time stamps new Date() has handed out
  queries,              \* server: agent queries started by POST /api/claude
  sessions,             \* server: the keys of the Map sessions
  pty,                  \* server: the PTY spawned for each session id
  client,               \* server: the stream response of each session id
  response,             \* server: the response to the last request
  text,                 \* notes: useState text (the textarea)
  entries,              \* notes: useState entries
  saving,               \* notes: useState saving
  requests,             \* notes: the fetches of the component, in the order made
  status,               \* terminal hook: useState status
  termRef,              \* terminal hook: termRef.current (0 is null)
  sseRef,               \* terminal hook: sseRef.current (0 is null)
  sidRef,               \* terminal hook: sidRef.current (0 is null)
  observerRef,          \* terminal hook: observerRef.current (0 is null)
  terminals,            \* terminal hook: the Terminals opened in the container
  observers,            \* terminal hook: the ResizeObservers made for the container
  sources,              \* terminal hook: the EventSources made
  fetches               \* terminal hook: the POSTs made, in order

transferVars ==
  << variant, connectionStatus, error, selectedFile, receivedFiles,
     uploadProgress, downloadProgress, transferStatus, pcRef, dataChannelRef,
     connectionRef, incomingTransferRef, readyState, sendBuf, link,
     sends, resetTimers, sentCount, pc, orphans, localSdp, remoteSdp,
     clipboard, myPeerId, isServerDisconnected, peerDisconnected, peerOpen,
     stale, extra >>

serverVars == << validTokens, db, clock, queries, sessions, pty, client, response >>

notesVars == << text, entries, saving, requests >>

hookVars ==
  << status, termRef, sseRef, sidRef, observerRef, terminals, observers, sources,
     fetches >>

\* the server, the notes page and the terminal page
appVars == << serverVars, notesVars, hookVars >>

vars == << transferVars, appVars >>

sdpVars == << pc, orphans, localSdp, remoteSdp, clipboard >>

peerVars == << myPeerId, isServerDisconnected, peerDisconnected, peerOpen >>

\* ------------------------------------------------------ the other pages
\* The same server that serves the transfer page has a login, a note store,
\* an agent query and a terminal relay; the browser has a notes page and a
\* terminal page.  Their state is below; the transfer actions leave it alone.
MaxTerminals == 2
MaxNotes == 2
MaxIo == 1
MaxQueries == 1
MaxSubmits == 2
MaxDeletes == 1
MaxConnects == 3
MaxFetches == 2

\* process.env.LOGIN_PASSWORD, or the built-in default
PASSWORD == "password"

Passwords == {PASSWORD, "guess"}

\* crypto.randomBytes(32).toString('hex'): two of the values it can return
Tokens == {"t1", "t2"}

\* no token cookie: parseCookies(...)['token'] is undefined
NoCookie == "undefined"

Cookies == Tokens \cup {NoCookie}

\* crypto.randomBytes(16).toString('hex'), named by the order of use
Sids == 1..MaxTerminals

\* a session id no stream has been given
UnknownSid == 0

NoPty == [state |-> "none", written |-> 0, resized |-> 0]

NoResponse == [route |-> "", status |-> 0]

Blank == ""

Texts == {"note"}

\* a line of the notes list: `[<time stamp>] <text>`; the stamp is the
\* browser's for an optimistic entry and the server's for a stored one
Entry(by, at, txt) == [by |-> by, at |-> at, text |-> txt]

NoEntry == Entry("", 0, Blank)

\* a fetch of the notes page: what was asked, how far it got, the answer
Request(kind, entry) ==
  [kind |-> kind, phase |-> "sent", entry |-> entry, ok |-> FALSE,
   content |-> NoEntry, list |-> << >>]

ServerIdle ==
  /\ validTokens = {}
  /\ db = << >>
  /\ clock = 0
  /\ queries = 0
  /\ sessions = {}
  /\ pty = [s \in Sids |-> NoPty]
  /\ client = [s \in Sids |-> "none"]
  /\ response = NoResponse

\* Input mounted: the effect has sent GET /api/storage
NotesIdle ==
  /\ text = Blank
  /\ entries = << >>
  /\ saving = FALSE
  /\ requests = << Request("load", NoEntry) >>

HookIdle ==
  /\ status = "disconnected"
  /\ termRef = 0
  /\ sseRef = 0
  /\ sidRef = 0
  /\ observerRef = 0
  /\ terminals = << >>
  /\ observers = << >>
  /\ sources = << >>
  /\ fetches = << >>

AppIdle == ServerIdle /\ NotesIdle /\ HookIdle

\* ------------------------------------------------------------- receiver
\* transferStatus: '' or `Sending: <name>` or `Receiving: <name>`
NoStatus == << >>
Sending(name) == << "Sending", name >>
Receiving(name) == << "Receiving", name >>

\* Mutant: a file-start that arrives during a transfer keeps the chunks
\* already buffered.
StartTransferKeeping(old, m) ==
  [name |-> m.name, fileType |-> m.fileType, totalChunks |-> m.totalChunks,
   totalSize |-> m.totalSize,
   chunks |-> IF old = Null THEN NewArray(m.totalChunks) ELSE old.chunks,
   receivedCount |-> IF old = Null THEN 0 ELSE old.receivedCount,
   startSid |-> m.sid, startSeq |-> m.seq, preempted |-> old # Null]

\* file-start: incomingTransferRef.current = { name, fileType, totalChunks,
\* totalSize, chunks: new Array(totalChunks), receivedCount: 0 }.
\* startSid, startSeq and preempted are ghosts: the invocation and the
\* position in the stream of the Start that opened the transfer, and whether
\* that Start arrived while another transfer was in progress.
StartTransfer(old, m) ==
  [name |-> m.name, fileType |-> m.fileType, totalChunks |-> m.totalChunks,
   totalSize |-> m.totalSize, chunks |-> NewArray(m.totalChunks),
   receivedCount |-> 0, startSid |-> m.sid, startSeq |-> m.seq,
   preempted |-> old # Null]

\* A stored chunk: its bytes, tagged (ghost) with the invocation that sent it
\* and its position in the stream.
Part(m) ==
  [src |-> m.data.src, from |-> m.data.from, to |-> m.data.to,
   sid |-> m.sid, seq |-> m.seq]

\* handleChunkData: transfer.chunks[transfer.receivedCount] = data;
\* transfer.receivedCount++
StoreChunk(t, m) ==
  [t EXCEPT !.chunks = WriteSlot(@, t.receivedCount, Part(m)),
            !.receivedCount = @ + 1]

\* file-chunk (broker): transfer.chunks[message.index] = message.data;
\* transfer.receivedCount++
StoreIndexedChunk(t, m) ==
  [t EXCEPT !.chunks = WriteSlot(@, m.index, Part(m)),
            !.receivedCount = @ + 1]

\* Mutant: only the first receivedCount slots go into the Blob.
AssembleFileCounted(t, m) ==
  [name |-> t.name, type |-> t.fileType,
   data |-> BlobData(SubSeq(t.chunks, 1, Min(t.receivedCount, Len(t.chunks)))),
   g |-> [startSid |-> t.startSid, startSeq |-> t.startSeq, endSid |-> m.sid,
          parts |-> t.chunks, totalChunks |-> t.totalChunks,
          totalSize |-> t.totalSize, receivedCount |-> t.receivedCount,
          fileType |-> t.fileType, preempted |-> t.preempted]]

\* file-end: { name: transfer.name, data: new Blob(transfer.chunks,
\* { type: transfer.fileType }) } (the timestamp is left out).  g is a ghost:
\* the transfer as it was when the End arrived, and the End's invocation.
AssembleFile(t, m) ==
  [name |-> t.name, type |-> t.fileType, data |-> BlobData(t.chunks),
   g |-> [startSid |-> t.startSid, startSeq |-> t.startSeq, endSid |-> m.sid,
          parts |-> t.chunks, totalChunks |-> t.totalChunks,
          totalSize |-> t.totalSize, receivedCount |-> t.receivedCount,
          fileType |-> t.fileType, preempted |-> t.preempted]]

\* Mutant: the new file replaces the list.
AddReceivedOnly(prev, file) == << file >>

\* setReceivedFiles((prev) => [...prev, file])
AddReceived(prev, file) == Append(prev, file)

\* The message types the handlers tell apart.  A binary frame is named
\* "binary" (manual variant); the indexed chunk is the object "file-chunk".
IsStart(m) == m.type = "file-start"
IsEnd(m) == m.type = "file-end"
IsBinary(m) == m.type = "binary"
IsIndexedChunk(m) == m.type = "file-chunk"

\* Mutant: a message no branch takes shows a finished download.
IgnoredCounting(e) ==
  /\ downloadProgress' = [downloadProgress EXCEPT ![e] = 100]
  /\ UNCHANGED << incomingTransferRef, transferStatus, receivedFiles >>

\* No branch of the handler takes the message (a chunk or an End with no
\* transfer in progress, an unknown type): nothing is written.
Ignored(e) ==
  UNCHANGED << incomingTransferRef, downloadProgress, transferStatus,
               receivedFiles >>

\* What the receiving endpoint e does with message m: channel.onmessage with
\* handleTransferMessage and handleChunkData (manual), conn.on('data')
\* (broker).  A message no branch takes changes nothing.
OnMessage(e, m) ==
  LET t == incomingTransferRef[e] IN
  CASE IsStart(m) ->
         /\ incomingTransferRef' = [incomingTransferRef EXCEPT ![e] = StartTransfer(t, m)]
         /\ downloadProgress' = [downloadProgress EXCEPT ![e] = 0]
         /\ transferStatus' = [transferStatus EXCEPT ![e] = Receiving(m.name)]
         /\ UNCHANGED receivedFiles
    [] IsEnd(m) /\ t # Null ->
         /\ receivedFiles' = [receivedFiles EXCEPT ![e] =
                                 AddReceived(@, AssembleFile(t, m))]
         /\ incomingTransferRef' = [incomingTransferRef EXCEPT ![e] = Null]
         /\ downloadProgress' = [downloadProgress EXCEPT ![e] = 0]
         /\ transferStatus' = [transferStatus EXCEPT ![e] = NoStatus]
    [] IsBinary(m) /\ variant = "manual" /\ t # Null ->
         /\ incomingTransferRef' = [incomingTransferRef EXCEPT ![e] = StoreChunk(t, m)]
         /\ downloadProgress' =
              [downloadProgress EXCEPT ![e] =
                 DownloadProgress(t.receivedCount + 1, t.totalChunks)]
         /\ UNCHANGED << receivedFiles, transferStatus >>
    [] IsIndexedChunk(m) /\ variant = "broker" /\ t # Null ->
         /\ incomingTransferRef' =
              [incomingTransferRef EXCEPT ![e] = StoreIndexedChunk(t, m)]
         /\ downloadProgress' =
              [downloadProgress EXCEPT ![e] =
                 DownloadProgress(t.receivedCount + 1, t.totalChunks)]
         /\ UNCHANGED << receivedFiles, transferStatus >>
    [] OTHER -> Ignored(e)

\* The transport takes the oldest queued message of endpoint e off its send
\* buffer (bufferedAmount drops) and delivers it: the message event of the
\* other endpoint runs, unless that endpoint's channel no longer receives, in
\* which case the message is lost.  Nothing is delivered before the channel
\* has surfaced and opened at the other endpoint.
Drain(e) ==
  /\ readyState[e] = "open"
  /\ link = "up"
  /\ readyState[Peer(e)] \notin {"new", "connecting"}
  /\ sendBuf[e] # << >>
  /\ sendBuf' = [sendBuf EXCEPT ![e] = Tail(@)]
  /\ IF readyState[Peer(e)] \in {"open", "closing"}
     THEN OnMessage(Peer(e), Head(sendBuf[e]))
     ELSE UNCHANGED << incomingTransferRef, downloadProgress, transferStatus,
                       receivedFiles >>
  /\ UNCHANGED << appVars, extra, stale, sdpVars, peerVars, variant, connectionStatus, error, selectedFile, uploadProgress,
                  pcRef, dataChannelRef, connectionRef, readyState, link,
                  sends, resetTimers, sentCount >>

\* --------------------------------------------------------------- sender
\* fileType of the Start: file.type || 'application/octet-stream' (manual),
\* file.type (broker).
StartFileType(f) ==
  IF variant = "manual" /\ f.type = "" THEN "application/octet-stream" ELSE f.type

StartMessage(f, s, q) ==
  [type |-> "file-start", name |-> f.name, fileType |-> StartFileType(f),
   totalChunks |-> TotalChunks(f.size), totalSize |-> f.size,
   sid |-> s, seq |-> q]

\* The chunk frame: the raw ArrayBuffer (manual), or the object
\* { type: 'file-chunk', index: i, data: chunk } (broker).
ChunkMessage(f, i, s, q) ==
  IF variant = "manual"
  THEN [type |-> "binary", data |-> ChunkOf(f, i), sid |-> s, seq |-> q]
  ELSE [type |-> "file-chunk", index |-> i, data |-> ChunkOf(f, i),
        sid |-> s, seq |-> q]

EndMessage(s, q) == [type |-> "file-end", sid |-> s, seq |-> q]

\* Ghost: whether a send finds the gauge above 4 x CHUNK_SIZE.
OverThreshold(amount) == amount > 4 * CHUNK_SIZE

\* A run state is the running part of one sendFile invocation: the send
\* buffer and message count of its endpoint, the invocation's log of emitted
\* messages, its loop index, and what it leaves in uploadProgress.
\* channel.send(m) / conn.send(m) on an open channel: m is queued.
\* The log entry (ghost) is the message and what the gauge was.
Emit(r, m) ==
  [r EXCEPT !.buf = Append(@, m), !.n = @ + 1,
            !.log = Append(@, [m |-> m,
                               over |-> OverThreshold(BufferedAmount(r.buf))])]

\* conn.send(m) of PeerJS: on a connection that is not open it emits an
\* 'error' event (conn.on('error') sets the error state) and sends nothing.
ConnSend(r, m, open) ==
  IF open THEN Emit(r, m)
  ELSE [r EXCEPT !.failed = TRUE, !.err = "Connection error"]

\* Mutant: the loop returns without sending file-end.
ManualFinishNoEnd(r, s, open) == [r EXCEPT !.pc = "done"]

\* After the loop (manual): channel.send(file-end), which throws on a channel
\* that is not open; then the reset timer and setSelectedFile(null).
ManualFinish(r, s, open) ==
  IF open THEN [Emit(r, EndMessage(s, r.n + 1)) EXCEPT !.pc = "done"]
  ELSE [r EXCEPT !.pc = "aborted"]

\* The chunk loop of the manual sendFile from index r.i, run until it ends,
\* suspends in the backlog wait, or a send throws.
RECURSIVE ManualLoop(_, _, _, _, _)
ManualLoop(r, f, s, total, open) ==
  IF r.i >= total THEN ManualFinish(r, s, open)
  ELSE IF BackpressureExceeded(BufferedAmount(r.buf))
  THEN [r EXCEPT !.pc = "waiting"]
  ELSE IF ~open THEN [r EXCEPT !.pc = "aborted"]
  ELSE ManualLoop(
         [Emit(r, ChunkMessage(f, r.i, s, r.n + 1))
            EXCEPT !.i = @ + 1, !.progress = Progress(r.i + 1, total)],
         f, s, total, open)

\* One pass of the broker sendFile loop from index r.i: send chunk r.i, set
\* the progress, then either await the 10 ms delay (i < totalChunks - 1) or
\* leave the loop, send file-end and finish.
BrokerLoop(r, f, s, total, open) ==
  LET r1 == IF r.i < total
            THEN [ConnSend(r, ChunkMessage(f, r.i, s, r.n + 1), open)
                    EXCEPT !.i = @ + 1, !.progress = Progress(r.i + 1, total)]
            ELSE r
  IN IF r.i < total - 1 THEN [r1 EXCEPT !.pc = "delay"]
     ELSE [ConnSend(r1, EndMessage(s, r1.n + 1), open) EXCEPT !.pc = "done"]

\* The run state an invocation resumes with.
RunState(e, s) ==
  [buf |-> sendBuf[e], n |-> sentCount[e], log |-> sends[s].log,
   i |-> sends[s].i, pc |-> sends[s].pc, progress |-> uploadProgress[e],
   failed |-> sends[s].failed, err |-> error[e]]

\* channel.readyState === 'open' / conn.open
IsOpen(e) == readyState[e] = "open"

\* The state after a run: what the invocation wrote.
Commit(e, s, r, total) ==
  /\ sendBuf' = [sendBuf EXCEPT ![e] = r.buf]
  /\ sentCount' = [sentCount EXCEPT ![e] = r.n]
  /\ sends' = [sends EXCEPT ![s] = [@ EXCEPT !.pc = r.pc, !.i = r.i,
                                              !.log = r.log, !.total = total,
                                              !.failed = r.failed]]
  /\ uploadProgress' = [uploadProgress EXCEPT ![e] = r.progress]
  /\ error' = [error EXCEPT ![e] = r.err]
  /\ selectedFile' = IF r.pc = "done" THEN [selectedFile EXCEPT ![e] = Null]
                     ELSE selectedFile
  /\ resetTimers' = IF r.pc = "done" THEN [resetTimers EXCEPT ![e] = @ + 1]
                    ELSE resetTimers

\* The Send button: disabled={!selectedFile || connectionStatus !==
\* 'connected'} (manual), disabled={!selectedFile || !connectionRef.current}
\* (broker).
SendEnabled(e) ==
  /\ selectedFile[e] # Null
  /\ IF variant = "manual" THEN connectionStatus[e] = "connected"
     ELSE connectionRef[e] # 0

\* The guards of sendFile: the manual one returns unless dataChannelRef and
\* selectedFile are set and channel.readyState is 'open'; the broker one
\* returns unless connectionRef and selectedFile are set.
SendAccepted(e) ==
  IF variant = "manual"
  THEN dataChannelRef[e] # 0 /\ selectedFile[e] # Null /\ readyState[e] = "open"
  ELSE connectionRef[e] # 0 /\ selectedFile[e] # Null

\* The error a rejected sendFile sets.
SendRejection(e) ==
  IF variant = "manual" /\ dataChannelRef[e] # 0 /\ selectedFile[e] # Null
  THEN "Data channel is not open"
  ELSE "No connection or file selected"

\* A click on Send: sendFile up to its first await (file.arrayBuffer()).
\* openAtInvoke is a ghost: whether the channel was open at the call.
SendFile(e, limit) ==
  /\ e \in Senders
  /\ SendEnabled(e)
  /\ IF SendAccepted(e)
     THEN /\ Len(sends) < limit
          /\ sends' = Append(sends, [owner |-> e, file |-> selectedFile[e],
                                     pc |-> "reading", i |-> 0, total |-> 0,
                                     log |-> << >>, failed |-> FALSE,
                                     openAtInvoke |-> IsOpen(e)])
          /\ UNCHANGED error
     ELSE /\ error' = [error EXCEPT ![e] = SendRejection(e)]
          /\ UNCHANGED sends
  /\ UNCHANGED << appVars, extra, stale, sdpVars, peerVars, variant, connectionStatus, selectedFile, receivedFiles,
                  uploadProgress, downloadProgress, transferStatus, pcRef,
                  dataChannelRef, connectionRef, incomingTransferRef,
                  readyState, sendBuf, link, resetTimers, sentCount >>

\* file.arrayBuffer() resolves: sendFile runs on from setUploadProgress(0)
\* and the Start send to its next await or its end.
ReadDone(s) ==
  /\ s \in 1..Len(sends)
  /\ sends[s].pc = "reading"
  /\ LET e == sends[s].owner
         f == sends[s].file
         total == TotalChunks(f.size)
         r0 == [RunState(e, s) EXCEPT !.progress = 0]
         start == StartMessage(f, s, r0.n + 1)
         r == IF variant = "manual"
              THEN IF IsOpen(e)
                   THEN ManualLoop(Emit(r0, start), f, s, total, TRUE)
                   ELSE [r0 EXCEPT !.pc = "aborted"]
              ELSE BrokerLoop(ConnSend(r0, start, IsOpen(e)),
                              f, s, total, IsOpen(e))
     IN /\ Commit(e, s, r, total)
        /\ transferStatus' = [transferStatus EXCEPT ![e] = Sending(f.name)]
  /\ UNCHANGED << appVars, extra, stale, sdpVars, peerVars, variant, connectionStatus, receivedFiles, downloadProgress,
                  pcRef, dataChannelRef, connectionRef, incomingTransferRef,
                  readyState, link >>

\* The 10 ms poll of the manual backlog wait finds the gauge low enough (a
\* poll that finds it still high changes nothing): the loop runs on.
PollTimer(s) ==
  /\ s \in 1..Len(sends)
  /\ variant = "manual"
  /\ sends[s].pc = "waiting"
  /\ LET e == sends[s].owner
     IN /\ ~BackpressureExceeded(BufferedAmount(sendBuf[e]))
        /\ Commit(e, s, ManualLoop(RunState(e, s), sends[s].file, s,
                                   sends[s].total, IsOpen(e)), sends[s].total)
  /\ UNCHANGED << appVars, extra, stale, sdpVars, peerVars, variant, connectionStatus, receivedFiles, downloadProgress,
                  transferStatus, pcRef, dataChannelRef, connectionRef,
                  incomingTransferRef, readyState, link >>

\* The 10 ms delay between two chunks of the broker sendFile ends.
DelayTimer(s) ==
  /\ s \in 1..Len(sends)
  /\ variant = "broker"
  /\ sends[s].pc = "delay"
  /\ LET e == sends[s].owner
     IN Commit(e, s, BrokerLoop(RunState(e, s), sends[s].file, s,
                                sends[s].total, IsOpen(e)), sends[s].total)
  /\ UNCHANGED << appVars, extra, stale, sdpVars, peerVars, variant, connectionStatus, receivedFiles, downloadProgress,
                  transferStatus, pcRef, dataChannelRef, connectionRef,
                  incomingTransferRef, readyState, link >>

\* setTimeout(() => { setUploadProgress(0); setTransferStatus(''); }, 1000)
ResetTimer(e) ==
  /\ resetTimers[e] > 0
  /\ resetTimers' = [resetTimers EXCEPT ![e] = @ - 1]
  /\ uploadProgress' = [uploadProgress EXCEPT ![e] = 0]
  /\ transferStatus' = [transferStatus EXCEPT ![e] = NoStatus]
  /\ UNCHANGED << appVars, extra, stale, sdpVars, peerVars, variant, connectionStatus, error, selectedFile, receivedFiles,
                  downloadProgress, pcRef, dataChannelRef, connectionRef,
                  incomingTransferRef, readyState, sendBuf, link,
                  sends, sentCount >>

\* The file input: onChange={(e) => setSelectedFile(e.target.files?.[0] ||
\* null)}; in the manual component the control is disabled unless connected.
SelectFile(e, f, limit) ==
  /\ e \in Senders
  /\ Len(sends) < limit
  /\ variant = "manual" => connectionStatus[e] = "connected"
  /\ selectedFile[e] # f
  /\ selectedFile' = [selectedFile EXCEPT ![e] = f]
  /\ UNCHANGED << appVars, extra, stale, sdpVars, peerVars, variant, connectionStatus, error, receivedFiles,
                  uploadProgress, downloadProgress, transferStatus, pcRef,
                  dataChannelRef, connectionRef, incomingTransferRef,
                  readyState, sendBuf, link, sends, resetTimers,
                  sentCount >>

\* ------------------------------------------------------- manual handshake
\* The texts of the two SDP fields and the clipboard: empty, JSON of a
\* session description, or something that is not JSON.
EmptyText == [kind |-> "empty"]
Garbage == [kind |-> "garbage"]

\* Session descriptions.  A description belongs to the peer connection that
\* made it: the n-th one endpoint e created.
NoDesc == [type |-> "none"]
Offer(e, n) == [type |-> "offer", owner |-> e, id |-> n]
Answer(e, n) == [type |-> "answer", owner |-> e, id |-> n]

\* JSON.stringify(pc.localDescription)
Stringify(d) == [kind |-> "json", sdp |-> d]

\* JSON.parse(remoteSdp): the description, or a SyntaxError is thrown.
SyntaxError == [type |-> "SyntaxError"]
Parse(t) == IF t.kind = "json" THEN t.sdp ELSE SyntaxError

\* The handler invocation that is suspended at an await on a peer connection.
NoCall == [op |-> "none"]

\* No RTCPeerConnection yet, and the n-th one new RTCPeerConnection() returns.
NoPc == [id |-> 0, signalingState |-> "none", local |-> NoDesc,
         remote |-> NoDesc, gathered |-> FALSE, pending |-> NoCall]
NewPc(n) == [id |-> n, signalingState |-> "stable", local |-> NoDesc,
             remote |-> NoDesc, gathered |-> FALSE, pending |-> NoCall]

\* A peer connection on which nothing was negotiated and nothing is running.
Inert(p) == p.local = NoDesc /\ p.remote = NoDesc /\ p.pending = NoCall

\* A peer connection that can still run code of the component: a suspended
\* handler, or an onicecandidate that has yet to report the end of gathering.
HasWork(p) ==
  /\ p.signalingState \notin {"none", "closed"}
  /\ p.pending # NoCall \/ (p.local # NoDesc /\ ~p.gathered)

\* The number of the next peer connection of endpoint e.  One that replaces
\* an inert one takes its number.
NextPcId(e) == IF Inert(pc[e]) THEN Max(pc[e].id, 1) ELSE pc[e].id + 1

\* createPeerConnection overwrites pcRef.current without closing the peer
\* connection it pointed to: that one lives on, referenced by its handlers.
Retire(e) ==
  IF pcRef[e] # 0 /\ HasWork(pc[e]) THEN Append(orphans[e], pc[e]) ELSE orphans[e]

\* Peer connection k of endpoint e: 0 is the one pcRef.current points to (or
\* pointed to last), k > 0 is the k-th one left behind.
PcAt(e, k) == IF k = 0 THEN pc[e] ELSE orphans[e][k]

\* Without element k.
Without(q, k) == SubSeq(q, 1, k - 1) \o SubSeq(q, k + 1, Len(q))

\* Peer connection k of endpoint e becomes p.  One left behind with nothing
\* more to do is forgotten.
PutPc(e, k, p) ==
  /\ pc' = IF k = 0 THEN [pc EXCEPT ![e] = p] ELSE pc
  /\ orphans' = IF k = 0 THEN orphans
                ELSE IF HasWork(p) THEN [orphans EXCEPT ![e][k] = p]
                ELSE [orphans EXCEPT ![e] = Without(@, k)]

\* pc.setRemoteDescription(d) on peer connection p: the outcomes a browser
\* can produce.  An offer is applied in 'stable', an answer in
\* 'have-local-offer'.  An offer in 'have-local-offer' is rejected by some
\* browsers and rolls the local offer back in others.  Anything else throws.
SetRemoteDescription(p, d) ==
  CASE d.type = "offer" /\ p.signalingState = "stable" ->
         {[ok |-> TRUE,
           pc |-> [p EXCEPT !.signalingState = "have-remote-offer", !.remote = d]]}
    [] d.type = "answer" /\ p.signalingState = "have-local-offer" ->
         {[ok |-> TRUE, pc |-> [p EXCEPT !.signalingState = "stable", !.remote = d]]}
    [] d.type = "offer" /\ p.signalingState = "have-local-offer" ->
         {[ok |-> FALSE, pc |-> p],
          [ok |-> TRUE,
           pc |-> [p EXCEPT !.signalingState = "have-remote-offer",
                            !.local = NoDesc, !.remote = d]]}
    [] OTHER -> {[ok |-> FALSE, pc |-> p]}

\* The two peer connections have applied each other's descriptions: the
\* transport can connect them.
Negotiated(e) ==
  /\ pc[e].signalingState = "stable"
  /\ pc[Peer(e)].signalingState = "stable"
  /\ pc[e].local # NoDesc
  /\ pc[e].remote # NoDesc
  /\ pc[Peer(e)].local = pc[e].remote
  /\ pc[Peer(e)].remote = pc[e].local

\* The peer connection whose description endpoint e applied is no longer the
\* one the other endpoint uses.
PartnerReplaced(e) ==
  /\ variant = "manual"
  /\ pc[e].remote # NoDesc
  /\ pc[e].remote.id # pc[Peer(e)].id

\* The channel endpoint e set up last has its handlers attached and has not
\* delivered its close event.
Live(e) == readyState[e] \in {"connecting", "open", "closing"}

\* createPeerConnection and setupDataChannel leave the channel of the
\* session before alone.  Its close event is still to come if it is closing,
\* or if it is open and what closes a channel (RemoteClosing) has happened; a
\* channel left behind otherwise stays as it is, on a peer connection nobody
\* closes.
LeftBehind(e) ==
  IF \/ readyState[e] = "closing"
     \/ /\ readyState[e] = "open"
        /\ readyState[Peer(e)] = "closed" \/ link = "down" \/ PartnerReplaced(e)
  THEN stale[e] + 1 ELSE stale[e]

\* createOffer (the Create Offer button, disabled unless 'disconnected') up
\* to its first await: setError(''), a new peer connection and data channel,
\* setupDataChannel, then await pc.createOffer().
CreateOffer(e) ==
  /\ variant = "manual"
  /\ connectionStatus[e] = "disconnected"
  /\ error' = [error EXCEPT ![e] = ""]
  /\ pcRef' = [pcRef EXCEPT ![e] = 1]
  /\ pc' = [pc EXCEPT ![e] = [NewPc(NextPcId(e)) EXCEPT
                                !.pending = [op |-> "createOffer"]]]
  /\ orphans' = [orphans EXCEPT ![e] = Retire(e)]
  /\ dataChannelRef' = [dataChannelRef EXCEPT ![e] = 1]
  /\ readyState' = [readyState EXCEPT ![e] = "connecting"]
  /\ stale' = [stale EXCEPT ![e] = LeftBehind(e)]
  /\ UNCHANGED << appVars, extra, peerVars, variant, connectionStatus, selectedFile, receivedFiles,
                  uploadProgress, downloadProgress, transferStatus,
                  connectionRef, incomingTransferRef, sendBuf, link, sends,
                  resetTimers, sentCount, localSdp, remoteSdp, clipboard >>

\* createOffer after its awaits, on the peer connection it created:
\* pc.createOffer() and pc.setLocalDescription(offer) are done, then
\* setConnectionStatus('creating-offer').  On a peer connection that was
\* closed or left 'stable' meanwhile they throw: setError(...).
OfferCreated(e, k) ==
  /\ variant = "manual"
  /\ k <= Len(orphans[e])
  /\ PcAt(e, k).pending = [op |-> "createOffer"]
  /\ LET p == PcAt(e, k) IN
     IF p.signalingState = "stable"
     THEN /\ PutPc(e, k, [p EXCEPT !.signalingState = "have-local-offer",
                                   !.local = Offer(e, p.id),
                                   !.pending = NoCall])
          /\ connectionStatus' = [connectionStatus EXCEPT ![e] = "creating-offer"]
          /\ UNCHANGED error
     ELSE /\ PutPc(e, k, [p EXCEPT !.pending = NoCall])
          /\ error' = [error EXCEPT ![e] = "Failed to create offer"]
          /\ UNCHANGED connectionStatus
  /\ UNCHANGED << appVars, extra, stale, peerVars, variant, selectedFile, receivedFiles, uploadProgress,
                  downloadProgress, transferStatus, pcRef, dataChannelRef,
                  connectionRef, incomingTransferRef, readyState, sendBuf,
                  link, sends, resetTimers, sentCount, localSdp, remoteSdp,
                  clipboard >>

\* handleOffer (the Create Answer button, disabled unless 'disconnected' and
\* remoteSdp is set) up to its first await: setError(''), a new peer
\* connection, JSON.parse(remoteSdp), then await pc.setRemoteDescription.
\* A SyntaxError goes to the catch: setError(...).
HandleOffer(e) ==
  /\ variant = "manual"
  /\ connectionStatus[e] = "disconnected"
  /\ remoteSdp[e] # EmptyText
  /\ pcRef' = [pcRef EXCEPT ![e] = 1]
  /\ readyState' = [readyState EXCEPT ![e] = "new"]
  /\ stale' = [stale EXCEPT ![e] = LeftBehind(e)]
  /\ orphans' = [orphans EXCEPT ![e] = Retire(e)]
  /\ LET d == Parse(remoteSdp[e]) IN
     IF d = SyntaxError
     THEN /\ pc' = [pc EXCEPT ![e] = NewPc(NextPcId(e))]
          /\ error' = [error EXCEPT ![e] = "Failed to create answer"]
     ELSE /\ pc' = [pc EXCEPT ![e] = [NewPc(NextPcId(e)) EXCEPT
                                        !.pending = [op |-> "handleOffer",
                                                     offer |-> d]]]
          /\ error' = [error EXCEPT ![e] = ""]
  /\ UNCHANGED << appVars, extra, peerVars, variant, connectionStatus, selectedFile, receivedFiles,
                  uploadProgress, downloadProgress, transferStatus,
                  dataChannelRef, connectionRef, incomingTransferRef, sendBuf,
                  link, sends, resetTimers, sentCount, localSdp, remoteSdp,
                  clipboard >>

\* handleOffer after its awaits, on the peer connection it created: the
\* pasted offer applied, the answer created and set, then
\* setConnectionStatus('awaiting-answer'); a throw on the way sets the error
\* and leaves the status.
AnswerCreated(e, k) ==
  /\ variant = "manual"
  /\ k <= Len(orphans[e])
  /\ PcAt(e, k).pending.op = "handleOffer"
  /\ LET p == [PcAt(e, k) EXCEPT !.pending = NoCall]
         d == PcAt(e, k).pending.offer
     IN \E o \in SetRemoteDescription(p, d) :
          IF o.ok
          THEN /\ PutPc(e, k, [o.pc EXCEPT !.signalingState = "stable",
                                           !.local = Answer(e, p.id)])
               /\ connectionStatus' =
                    [connectionStatus EXCEPT ![e] = "awaiting-answer"]
               /\ UNCHANGED error
          ELSE /\ PutPc(e, k, o.pc)
               /\ error' = [error EXCEPT ![e] = "Failed to create answer"]
               /\ UNCHANGED connectionStatus
  /\ UNCHANGED << appVars, extra, stale, peerVars, variant, selectedFile, receivedFiles, uploadProgress,
                  downloadProgress, transferStatus, pcRef, dataChannelRef,
                  connectionRef, incomingTransferRef, readyState, sendBuf,
                  link, sends, resetTimers, sentCount, localSdp, remoteSdp,
                  clipboard >>

\* handleAnswer (the Set Remote Answer button, shown while 'creating-offer',
\* disabled unless remoteSdp is set): the pasted answer is applied to
\* pcRef.current; a throw sets the error.  The status is left as it is.
HandleAnswer(e) ==
  /\ variant = "manual"
  /\ connectionStatus[e] = "creating-offer"
  /\ remoteSdp[e] # EmptyText
  /\ IF pcRef[e] = 0
     THEN /\ error' = [error EXCEPT ![e] = "Please paste the remote answer first"]
          /\ UNCHANGED pc
     ELSE LET d == Parse(remoteSdp[e]) IN
          IF d = SyntaxError
          THEN /\ error' = [error EXCEPT ![e] = "Failed to set remote answer"]
               /\ UNCHANGED pc
          ELSE \E o \in SetRemoteDescription(pc[e], d) :
                 /\ pc' = [pc EXCEPT ![e] = o.pc]
                 /\ error' = [error EXCEPT ![e] =
                                IF o.ok THEN "" ELSE "Failed to set remote answer"]
  /\ UNCHANGED << appVars, extra, stale, peerVars, variant, connectionStatus, selectedFile, receivedFiles,
                  uploadProgress, downloadProgress, transferStatus, pcRef,
                  dataChannelRef, connectionRef, incomingTransferRef,
                  readyState, sendBuf, link, sends, resetTimers, sentCount,
                  orphans, localSdp, remoteSdp, clipboard >>

\* pc.onicecandidate of peer connection k with the null candidate (gathering
\* is complete): if pc.localDescription is set,
\* setLocalSdp(JSON.stringify(pc.localDescription)).
IceGatheringComplete(e, k) ==
  /\ variant = "manual"
  /\ k <= Len(orphans[e])
  /\ PcAt(e, k).signalingState \notin {"none", "closed"}
  /\ PcAt(e, k).local # NoDesc
  /\ ~PcAt(e, k).gathered
  /\ PutPc(e, k, [PcAt(e, k) EXCEPT !.gathered = TRUE])
  /\ localSdp' = [localSdp EXCEPT ![e] = Stringify(PcAt(e, k).local)]
  /\ UNCHANGED << appVars, extra, stale, peerVars, variant, connectionStatus, error, selectedFile, receivedFiles,
                  uploadProgress, downloadProgress, transferStatus, pcRef,
                  dataChannelRef, connectionRef, incomingTransferRef,
                  readyState, sendBuf, link, sends, resetTimers, sentCount,
                  remoteSdp, clipboard >>

\* copyLocalSdp (button disabled while localSdp is empty):
\* navigator.clipboard.writeText(localSdp).
CopyLocalSdp(e) ==
  /\ variant = "manual"
  /\ localSdp[e] # EmptyText
  /\ clipboard # localSdp[e]
  /\ clipboard' = localSdp[e]
  /\ UNCHANGED << appVars, extra, stale, peerVars, variant, connectionStatus, error, selectedFile, receivedFiles,
                  uploadProgress, downloadProgress, transferStatus, pcRef,
                  dataChannelRef, connectionRef, incomingTransferRef,
                  readyState, sendBuf, link, sends, resetTimers, sentCount,
                  pc, orphans, localSdp, remoteSdp >>

\* pasteRemoteSdp: setRemoteSdp(await navigator.clipboard.readText()).
PasteRemoteSdp(e) ==
  /\ variant = "manual"
  /\ remoteSdp[e] # clipboard
  /\ remoteSdp' = [remoteSdp EXCEPT ![e] = clipboard]
  /\ UNCHANGED << appVars, extra, stale, peerVars, variant, connectionStatus, error, selectedFile, receivedFiles,
                  uploadProgress, downloadProgress, transferStatus, pcRef,
                  dataChannelRef, connectionRef, incomingTransferRef,
                  readyState, sendBuf, link, sends, resetTimers, sentCount,
                  pc, orphans, localSdp, clipboard >>

\* The Remote SDP field: onChange={(e) => setRemoteSdp(e.target.value)}.
EditRemoteSdp(e, t) ==
  /\ variant = "manual"
  /\ remoteSdp[e] # t
  /\ remoteSdp' = [remoteSdp EXCEPT ![e] = t]
  /\ UNCHANGED << appVars, extra, stale, peerVars, variant, connectionStatus, error, selectedFile, receivedFiles,
                  uploadProgress, downloadProgress, transferStatus, pcRef,
                  dataChannelRef, connectionRef, incomingTransferRef,
                  readyState, sendBuf, link, sends, resetTimers, sentCount,
                  pc, orphans, localSdp, clipboard >>

\* Mutant: the open handler leaves the connection status as it is.
OnOpenSilent(e) ==
  /\ UNCHANGED connectionStatus
  /\ error' = [error EXCEPT ![e] = ""]

\* channel.onopen: setConnectionStatus('connected'); setError('').
OnOpen(e) ==
  /\ connectionStatus' = [connectionStatus EXCEPT ![e] = "connected"]
  /\ error' = [error EXCEPT ![e] = ""]

\* ------------------------------------------------------ channel lifecycle
\* channel.onopen on the endpoint that created the channel (manual):
\* setConnectionStatus('connected'); setError('').
ChannelOpen(e) ==
  /\ variant = "manual"
  /\ readyState[e] = "connecting"
  /\ link = "up"
  /\ readyState[Peer(e)] # "closed"
  /\ Negotiated(e)
  /\ readyState' = [readyState EXCEPT ![e] = "open"]
  /\ OnOpen(e)
  /\ UNCHANGED << appVars, extra, stale, sdpVars, peerVars, variant, selectedFile, receivedFiles, uploadProgress,
                  downloadProgress, transferStatus, pcRef, dataChannelRef,
                  connectionRef, incomingTransferRef, sendBuf, link,
                  sends, resetTimers, sentCount >>

\* pc.ondatachannel on the answering endpoint (manual): setupDataChannel
\* stores the channel and attaches the handlers; the channel is then
\* announced open and channel.onopen runs.
DataChannelEvent(e) ==
  /\ variant = "manual"
  /\ readyState[e] = "new"
  /\ link = "up"
  /\ readyState[Peer(e)] # "closed"
  /\ Negotiated(e)
  /\ dataChannelRef' = [dataChannelRef EXCEPT ![e] = 1]
  /\ readyState' = [readyState EXCEPT ![e] = "open"]
  /\ OnOpen(e)
  /\ UNCHANGED << appVars, extra, stale, sdpVars, peerVars, variant, selectedFile, receivedFiles, uploadProgress,
                  downloadProgress, transferStatus, pcRef, connectionRef,
                  incomingTransferRef, sendBuf, link, sends,
                  resetTimers, sentCount >>

\* peer.on('connection', conn => setupConnection(conn)) on the endpoint that
\* is connected to (broker): connectionRef.current = conn.  The broker relays
\* the offer and the answer between two registered Peers.
IncomingConnection(e) ==
  /\ variant = "broker"
  /\ readyState[e] = "new"
  /\ link = "up"
  /\ peerOpen[e]
  /\ peerOpen[Peer(e)]
  /\ readyState[Peer(e)] \in {"connecting", "open"}
  /\ connectionRef' = [connectionRef EXCEPT ![e] = 1]
  /\ readyState' = [readyState EXCEPT ![e] = "connecting"]
  /\ UNCHANGED << appVars, extra, stale, sdpVars, peerVars, variant, connectionStatus, error, selectedFile, receivedFiles,
                  uploadProgress, downloadProgress, transferStatus, pcRef,
                  dataChannelRef, incomingTransferRef, sendBuf, link,
                  sends, resetTimers, sentCount >>

\* conn.on('open') (broker): setConnectionStatus(`Connected to ...`);
\* setError('').  A connection opens once the other Peer has answered it.
ConnOpen(e) ==
  /\ variant = "broker"
  /\ readyState[e] = "connecting"
  /\ link = "up"
  /\ readyState[Peer(e)] \in {"connecting", "open"}
  /\ readyState' = [readyState EXCEPT ![e] = "open"]
  /\ connectionStatus' = [connectionStatus EXCEPT ![e] = "Connected"]
  /\ error' = [error EXCEPT ![e] = ""]
  /\ UNCHANGED << appVars, extra, stale, sdpVars, peerVars, variant, selectedFile, receivedFiles, uploadProgress,
                  downloadProgress, transferStatus, pcRef, dataChannelRef,
                  connectionRef, incomingTransferRef, sendBuf, link,
                  sends, resetTimers, sentCount >>

\* The transport between the endpoints fails (the network drops).
LinkDown ==
  /\ link = "up"
  /\ link' = "down"
  /\ UNCHANGED << appVars, extra, stale, sdpVars, peerVars, variant, connectionStatus, error, selectedFile, receivedFiles,
                  uploadProgress, downloadProgress, transferStatus, pcRef,
                  dataChannelRef, connectionRef, incomingTransferRef,
                  readyState, sendBuf, sends, resetTimers, sentCount >>

\* The channel of endpoint e starts closing because the other end closed or
\* the transport failed.  No handler of the components runs on this.  A
\* channel that never surfaced at e (no datachannel / connection event yet)
\* is simply gone.
RemoteClosing(e) ==
  /\ readyState[e] \in {"new", "connecting", "open"}
  /\ readyState[Peer(e)] = "closed" \/ link = "down" \/ PartnerReplaced(e)
  /\ readyState' = [readyState EXCEPT ![e] =
                      IF readyState[e] = "new" THEN "closed" ELSE "closing"]
  /\ UNCHANGED << appVars, extra, stale, sdpVars, peerVars, variant, connectionStatus, error, selectedFile, receivedFiles,
                  uploadProgress, downloadProgress, transferStatus, pcRef,
                  dataChannelRef, connectionRef, incomingTransferRef, sendBuf,
                  link, sends, resetTimers, sentCount >>

\* Mutant: the close handler also drops the transfer in progress.
OnCloseDropping(e) ==
  /\ connectionStatus' = [connectionStatus EXCEPT ![e] =
                            IF variant = "manual" THEN "disconnected" ELSE "Disconnected"]
  /\ dataChannelRef' = IF variant = "manual" THEN [dataChannelRef EXCEPT ![e] = 0]
                       ELSE dataChannelRef
  /\ connectionRef' = IF variant = "broker" THEN [connectionRef EXCEPT ![e] = 0]
                      ELSE connectionRef
  /\ incomingTransferRef' = [incomingTransferRef EXCEPT ![e] = Null]
  /\ UNCHANGED receivedFiles

\* channel.onclose (manual): setConnectionStatus('disconnected');
\* dataChannelRef.current = null.  conn.on('close') (broker):
\* setConnectionStatus('Disconnected'); connectionRef.current = null.
OnClose(e) ==
  /\ connectionStatus' = [connectionStatus EXCEPT ![e] =
                            IF variant = "manual" THEN "disconnected" ELSE "Disconnected"]
  /\ dataChannelRef' = IF variant = "manual" THEN [dataChannelRef EXCEPT ![e] = 0]
                       ELSE dataChannelRef
  /\ connectionRef' = IF variant = "broker" THEN [connectionRef EXCEPT ![e] = 0]
                      ELSE connectionRef
  /\ UNCHANGED << incomingTransferRef, receivedFiles >>

\* The channel of endpoint e is closed: the close event reaches the
\* component.
ChannelClosed(e) ==
  /\ readyState[e] = "closing"
  /\ readyState' = [readyState EXCEPT ![e] = "closed"]
  /\ OnClose(e)
  /\ UNCHANGED << appVars, extra, stale, sdpVars, peerVars, variant, error, selectedFile, uploadProgress,
                  downloadProgress, transferStatus, pcRef, sendBuf, link, sends,
                  resetTimers, sentCount >>

\* The close event of an earlier channel of endpoint e arrives: its handler
\* is the same closure over connectionStatus and the ref, whatever channel
\* the ref holds by now.
StaleClose(e) ==
  /\ stale[e] > 0
  /\ stale' = [stale EXCEPT ![e] = @ - 1]
  /\ OnClose(e)
  /\ UNCHANGED << appVars, extra, sdpVars, peerVars, variant, error, selectedFile, uploadProgress,
                  downloadProgress, transferStatus, pcRef, readyState, sendBuf,
                  link, sends, resetTimers, sentCount >>

\* pc.onconnectionstatechange (manual) with connectionState 'failed' or
\* 'disconnected': setConnectionStatus('disconnected').  The connection
\* state of a peer connection leaves 'new' only once both descriptions are
\* set.
ConnectionStateChange(e) ==
  /\ variant = "manual"
  /\ pcRef[e] # 0
  /\ pc[e].local # NoDesc
  /\ pc[e].remote # NoDesc
  /\ readyState[Peer(e)] = "closed" \/ link = "down" \/ PartnerReplaced(e)
  /\ connectionStatus[e] # "disconnected"
  /\ connectionStatus' = [connectionStatus EXCEPT ![e] = "disconnected"]
  /\ UNCHANGED << appVars, extra, stale, sdpVars, peerVars, variant, error, selectedFile, receivedFiles, uploadProgress,
                  downloadProgress, transferStatus, pcRef, dataChannelRef,
                  connectionRef, incomingTransferRef, readyState, sendBuf,
                  link, sends, resetTimers, sentCount >>

\* Mutant: disconnect() leaves the two SDP fields as they are.
DisconnectKeepingSdp(e) ==
  /\ variant = "manual"
  /\ connectionStatus[e] # "disconnected"
  /\ dataChannelRef' = [dataChannelRef EXCEPT ![e] = 0]
  /\ pcRef' = [pcRef EXCEPT ![e] = 0]
  /\ pc' = [pc EXCEPT ![e].signalingState =
                        IF pcRef[e] # 0 THEN "closed" ELSE @]
  /\ connectionStatus' = [connectionStatus EXCEPT ![e] = "disconnected"]
  /\ readyState' = [readyState EXCEPT ![e] = "closed"]
  /\ \E fires \in IF Live(e) THEN BOOLEAN ELSE {FALSE} :
       stale' = [stale EXCEPT ![e] = IF fires THEN @ + 1 ELSE @]
  /\ UNCHANGED << appVars, extra, peerVars, variant, error, selectedFile, receivedFiles,
                  uploadProgress, downloadProgress, transferStatus,
                  connectionRef, incomingTransferRef, sendBuf, link, sends,
                  resetTimers, sentCount, orphans, clipboard, localSdp,
                  remoteSdp >>

\* The Disconnect button (manual, shown unless 'disconnected'): disconnect()
\* closes the channel and the peer connection, nulls both refs and sets
\* 'disconnected', and clears both SDP fields.  Closing the peer connection
\* closes the channel at once; whether the close event of a channel closed
\* this way still fires afterwards depends on the browser.
Disconnect(e) ==
  /\ variant = "manual"
  /\ connectionStatus[e] # "disconnected"
  /\ dataChannelRef' = [dataChannelRef EXCEPT ![e] = 0]
  /\ pcRef' = [pcRef EXCEPT ![e] = 0]
  /\ pc' = [pc EXCEPT ![e].signalingState =
                        IF pcRef[e] # 0 THEN "closed" ELSE @]
  /\ connectionStatus' = [connectionStatus EXCEPT ![e] = "disconnected"]
  /\ localSdp' = [localSdp EXCEPT ![e] = EmptyText]
  /\ remoteSdp' = [remoteSdp EXCEPT ![e] = EmptyText]
  /\ readyState' = [readyState EXCEPT ![e] = "closed"]
  /\ \E fires \in IF Live(e) THEN BOOLEAN ELSE {FALSE} :
       stale' = [stale EXCEPT ![e] = IF fires THEN @ + 1 ELSE @]
  /\ UNCHANGED << appVars, extra, peerVars, variant, error, selectedFile, receivedFiles,
                  uploadProgress, downloadProgress, transferStatus,
                  connectionRef, incomingTransferRef, sendBuf, link, sends,
                  resetTimers, sentCount, orphans, clipboard >>

\* ------------------------------------------------------ broker session
\* The messages of the Peer errors the component can be shown.
ErrDisconnected == "Peer error: Cannot connect to new Peer after disconnecting from server."
ErrNetwork == "Peer error: Lost connection to server."
ErrHurry == "Peer error: In a hurry? We're still trying to make the initial connection!"

\* Mutant: the 'disconnected' handler also drops the data connection.
OnDisconnectedDropping(e) ==
  /\ isServerDisconnected' = [isServerDisconnected EXCEPT ![e] = TRUE]
  /\ connectionStatus' = [connectionStatus EXCEPT ![e] = "Server Disconnected"]
  /\ connectionRef' = [connectionRef EXCEPT ![e] = 0]

\* peer.on('disconnected'): setIsServerDisconnected(true);
\* setConnectionStatus('Server Disconnected').
OnDisconnected(e) ==
  /\ isServerDisconnected' = [isServerDisconnected EXCEPT ![e] = TRUE]
  /\ connectionStatus' = [connectionStatus EXCEPT ![e] = "Server Disconnected"]
  /\ UNCHANGED connectionRef

\* peer.on('open', id): setMyPeerId(id); setConnectionStatus('Ready');
\* setIsServerDisconnected(false).  The broker accepted the registration, the
\* first one or the one peer.reconnect() asked for.
ServerOpen(e) ==
  /\ variant = "broker"
  /\ ~peerOpen[e]
  /\ ~peerDisconnected[e]
  /\ peerOpen' = [peerOpen EXCEPT ![e] = TRUE]
  /\ myPeerId' = [myPeerId EXCEPT ![e] = e]
  /\ connectionStatus' = [connectionStatus EXCEPT ![e] = "Ready"]
  /\ isServerDisconnected' = [isServerDisconnected EXCEPT ![e] = FALSE]
  /\ UNCHANGED << appVars, extra, stale, sdpVars, variant, error, selectedFile, receivedFiles,
                  uploadProgress, downloadProgress, transferStatus, pcRef,
                  dataChannelRef, connectionRef, incomingTransferRef,
                  readyState, sendBuf, link, sends, resetTimers, sentCount,
                  peerDisconnected >>

\* disconnectFromServer (the Disconnect button): peerRef.current.disconnect().
\* A Peer that is already disconnected does nothing; otherwise the socket is
\* closed and 'disconnected' is emitted.
DisconnectFromServer(e) ==
  /\ variant = "broker"
  /\ ~peerDisconnected[e]
  /\ peerDisconnected' = [peerDisconnected EXCEPT ![e] = TRUE]
  /\ peerOpen' = [peerOpen EXCEPT ![e] = FALSE]
  /\ OnDisconnected(e)
  /\ UNCHANGED << appVars, extra, stale, sdpVars, variant, error, selectedFile, receivedFiles,
                  uploadProgress, downloadProgress, transferStatus, pcRef,
                  dataChannelRef, incomingTransferRef, readyState, sendBuf,
                  link, sends, resetTimers, sentCount, myPeerId >>

\* The socket to the broker is lost: the Peer emits 'error' (peer.on('error'):
\* setError(`Peer error: ...`); setConnectionStatus('Error')) and then
\* disconnects, which emits 'disconnected'.
ServerLost(e) ==
  /\ variant = "broker"
  /\ peerOpen[e]
  /\ peerDisconnected' = [peerDisconnected EXCEPT ![e] = TRUE]
  /\ peerOpen' = [peerOpen EXCEPT ![e] = FALSE]
  /\ error' = [error EXCEPT ![e] = ErrNetwork]
  /\ OnDisconnected(e)
  /\ UNCHANGED << appVars, extra, stale, sdpVars, variant, selectedFile, receivedFiles,
                  uploadProgress, downloadProgress, transferStatus, pcRef,
                  dataChannelRef, incomingTransferRef, readyState, sendBuf,
                  link, sends, resetTimers, sentCount, myPeerId >>

\* reconnectToServer (the Reconnect button, shown while isServerDisconnected):
\* setConnectionStatus('Reconnecting...'); peerRef.current.reconnect().  On a
\* Peer that is no longer disconnected and not yet open, reconnect() emits
\* 'error'.
ReconnectToServer(e) ==
  /\ variant = "broker"
  /\ isServerDisconnected[e]
  /\ IF peerDisconnected[e]
     THEN /\ peerDisconnected' = [peerDisconnected EXCEPT ![e] = FALSE]
          /\ connectionStatus' = [connectionStatus EXCEPT ![e] = "Reconnecting..."]
          /\ UNCHANGED error
     ELSE /\ error' = [error EXCEPT ![e] = ErrHurry]
          /\ connectionStatus' = [connectionStatus EXCEPT ![e] = "Error"]
          /\ UNCHANGED peerDisconnected
  /\ UNCHANGED << appVars, extra, stale, sdpVars, variant, selectedFile, receivedFiles,
                  uploadProgress, downloadProgress, transferStatus, pcRef,
                  dataChannelRef, connectionRef, incomingTransferRef,
                  readyState, sendBuf, link, sends, resetTimers, sentCount,
                  myPeerId, isServerDisconnected, peerOpen >>

\* connectToPeer (the Connect button, disabled until myPeerId is set; a peer
\* ID is typed in): conn = peerRef.current.connect(...); setupConnection(conn).
\* On a disconnected Peer connect() emits 'error' and returns undefined;
\* setupConnection stores that in connectionRef.current and then throws on
\* conn.on.  Otherwise the new connection is stored and its handlers are
\* attached.  (One data connection per pair of endpoints is modelled.)
ConnectToPeer(e) ==
  /\ variant = "broker"
  /\ myPeerId[e] # ""
  /\ IF peerDisconnected[e]
     THEN /\ error' = [error EXCEPT ![e] = ErrDisconnected]
          /\ connectionStatus' = [connectionStatus EXCEPT ![e] = "Error"]
          /\ connectionRef' = [connectionRef EXCEPT ![e] = 0]
          /\ UNCHANGED readyState
     ELSE /\ readyState[e] = "new"
          /\ readyState[Peer(e)] = "new"
          /\ connectionRef' = [connectionRef EXCEPT ![e] = 1]
          /\ readyState' = [readyState EXCEPT ![e] = "connecting"]
          /\ UNCHANGED << error, connectionStatus >>
  /\ UNCHANGED << appVars, extra, stale, sdpVars, peerVars, variant, selectedFile, receivedFiles,
                  uploadProgress, downloadProgress, transferStatus, pcRef,
                  dataChannelRef, incomingTransferRef, sendBuf, link, sends,
                  resetTimers, sentCount >>

\* ------------------------------------------ a second data connection
\* peer.on('connection', conn => setupConnection(conn)) for a connection a
\* third peer opens to endpoint e (broker): connectionRef.current = conn,
\* whatever connection the ref held, and the handlers are attached.  (2 is
\* this connection, 1 the one with the other endpoint.)
ExtraIncoming(e) ==
  /\ variant = "broker"
  /\ peerOpen[e]
  /\ extra[e].state = "none"
  /\ extra' = [extra EXCEPT ![e].state = "connecting"]
  /\ connectionRef' = [connectionRef EXCEPT ![e] = 2]
  /\ UNCHANGED << appVars, stale, sdpVars, peerVars, variant, connectionStatus, error,
                  selectedFile, receivedFiles, uploadProgress, downloadProgress,
                  transferStatus, pcRef, dataChannelRef, incomingTransferRef,
                  readyState, sendBuf, link, sends, resetTimers, sentCount >>

\* conn.on('open') of that connection: setConnectionStatus(`Connected to
\* ...`); setError('').
ExtraOpen(e) ==
  /\ extra[e].state = "connecting"
  /\ extra' = [extra EXCEPT ![e].state = "open"]
  /\ connectionStatus' = [connectionStatus EXCEPT ![e] = "Connected"]
  /\ error' = [error EXCEPT ![e] = ""]
  /\ UNCHANGED << appVars, stale, sdpVars, peerVars, variant, selectedFile, receivedFiles,
                  uploadProgress, downloadProgress, transferStatus, pcRef,
                  dataChannelRef, connectionRef, incomingTransferRef,
                  readyState, sendBuf, link, sends, resetTimers, sentCount >>

\* The file the third peer sends, and what it can send as its q-th message.
OtherFile == [name |-> "other.txt", type |-> "text/plain", size |-> 2 * CHUNK_SIZE]
ExtraMessages(q) ==
  {StartMessage(OtherFile, 0, q), EndMessage(0, q)}
    \cup { ChunkMessage(OtherFile, i, 0, q) : i \in 0..1 }

\* conn.on('data') of that connection with message m: the same handler,
\* over the same incomingTransferRef.
ExtraData(e, m) ==
  /\ extra[e].state = "open"
  /\ extra[e].n < MaxExtra
  /\ extra' = [extra EXCEPT ![e].n = @ + 1]
  /\ OnMessage(e, m)
  /\ UNCHANGED << appVars, stale, sdpVars, peerVars, variant, connectionStatus, error,
                  selectedFile, uploadProgress, pcRef, dataChannelRef,
                  connectionRef, readyState, sendBuf, link, sends,
                  resetTimers, sentCount >>

\* conn.on('close') of that connection: setConnectionStatus('Disconnected');
\* connectionRef.current = null.
ExtraClose(e) ==
  /\ extra[e].state \in {"connecting", "open"}
  /\ extra' = [extra EXCEPT ![e].state = "closed"]
  /\ OnClose(e)
  /\ UNCHANGED << appVars, stale, sdpVars, peerVars, variant, error, selectedFile,
                  uploadProgress, downloadProgress, transferStatus, pcRef,
                  readyState, sendBuf, link, sends, resetTimers, sentCount >>

\* ------------------------------------------------------- specification
\* The transfer protocol over one negotiated channel.  The initial state is
\* the one the handshake leaves: endpoint "A" asked for the channel (manual:
\* createOffer and handleAnswer done; broker: connectToPeer done) and "B"
\* answered (manual: handleOffer done; broker: registered with the broker),
\* and the transport has not opened the channel yet.
Init ==
  /\ variant \in Variants
  /\ connectionStatus =
       IF variant = "manual" THEN [e \in Endpoints |->
                                     IF e = "A" THEN "creating-offer" ELSE "awaiting-answer"]
       ELSE [e \in Endpoints |-> "Ready"]
  /\ error = [e \in Endpoints |-> ""]
  /\ selectedFile = [e \in Endpoints |-> Null]
  /\ receivedFiles = [e \in Endpoints |-> << >>]
  /\ uploadProgress = [e \in Endpoints |-> 0]
  /\ downloadProgress = [e \in Endpoints |-> 0]
  /\ transferStatus = [e \in Endpoints |-> NoStatus]
  /\ pcRef = [e \in Endpoints |-> IF variant = "manual" THEN 1 ELSE 0]
  /\ dataChannelRef = [e \in Endpoints |->
                         IF variant = "manual" /\ e = "A" THEN 1 ELSE 0]
  /\ connectionRef = [e \in Endpoints |->
                        IF variant = "broker" /\ e = "A" THEN 1 ELSE 0]
  /\ incomingTransferRef = [e \in Endpoints |-> Null]
  /\ readyState = [e \in Endpoints |-> IF e = "A" THEN "connecting" ELSE "new"]
  /\ sendBuf = [e \in Endpoints |-> << >>]
  /\ link = "up"
  /\ sends = << >>
  /\ resetTimers = [e \in Endpoints |-> 0]
  /\ sentCount = [e \in Endpoints |-> 0]
  /\ pc = [e \in Endpoints |->
            IF variant = "broker" THEN NoPc
            ELSE IF e = "A"
            THEN [NewPc(1) EXCEPT !.local = Offer("A", 1),
                                  !.remote = Answer("B", 1), !.gathered = TRUE]
            ELSE [NewPc(1) EXCEPT !.local = Answer("B", 1),
                                  !.remote = Offer("A", 1), !.gathered = TRUE]]
  /\ orphans = [e \in Endpoints |-> << >>]
  /\ localSdp = [e \in Endpoints |->
                  IF variant = "broker" THEN EmptyText
                  ELSE Stringify(IF e = "A" THEN Offer("A", 1) ELSE Answer("B", 1))]
  /\ remoteSdp = [e \in Endpoints |->
                   IF variant = "broker" THEN EmptyText
                   ELSE Stringify(IF e = "A" THEN Answer("B", 1) ELSE Offer("A", 1))]
  /\ clipboard = IF variant = "broker" THEN EmptyText ELSE Stringify(Answer("B", 1))
  /\ myPeerId = [e \in Endpoints |-> IF variant = "broker" THEN e ELSE ""]
  /\ isServerDisconnected = [e \in Endpoints |-> FALSE]
  /\ peerDisconnected = [e \in Endpoints |-> FALSE]
  /\ peerOpen = [e \in Endpoints |-> variant = "broker"]
  /\ stale = [e \in Endpoints |-> 0]
  /\ extra = [e \in Endpoints |-> NoExtra]
  /\ AppIdle

Next ==
  \/ \E e \in Endpoints : \E f \in Files : SelectFile(e, f, MaxSends)
  \/ \E e \in Endpoints : SendFile(e, MaxSends)
  \/ \E s \in 1..MaxSends : ReadDone(s)
  \/ \E s \in 1..MaxSends : PollTimer(s)
  \/ \E s \in 1..MaxSends : DelayTimer(s)
  \/ \E e \in Endpoints : ResetTimer(e)
  \/ \E e \in Endpoints : Drain(e)
  \/ \E e \in Endpoints : ChannelOpen(e)
  \/ \E e \in Endpoints : DataChannelEvent(e)
  \/ \E e \in Endpoints : IncomingConnection(e)
  \/ \E e \in Endpoints : ConnOpen(e)
  \/ LinkDown
  \/ \E e \in Endpoints : RemoteClosing(e)
  \/ \E e \in Endpoints : ChannelClosed(e)
  \/ \E e \in Endpoints : ConnectionStateChange(e)
  \/ \E e \in Endpoints : Disconnect(e)

Spec == Init /\ [][Next]_vars

\* Overlapping sendFile invocations on a channel that stays up: the Send
\* button stays enabled while an invocation is suspended at an await.
NextOverlap ==
  \/ \E e \in Endpoints : \E f \in OverlapFiles(variant) :
        SelectFile(e, f, MaxOverlap)
  \/ \E e \in Endpoints : SendFile(e, MaxOverlap)
  \/ \E s \in 1..MaxOverlap : ReadDone(s)
  \/ \E s \in 1..MaxOverlap : PollTimer(s)
  \/ \E s \in 1..MaxOverlap : DelayTimer(s)
  \/ \E e \in Endpoints : Drain(e)
  \/ \E e \in Endpoints : ChannelOpen(e)
  \/ \E e \in Endpoints : DataChannelEvent(e)
  \/ \E e \in Endpoints : IncomingConnection(e)
  \/ \E e \in Endpoints : ConnOpen(e)

SpecOverlap == Init /\ [][NextOverlap]_vars

\* The manual handshake from two freshly mounted components, followed by a
\* send of the empty file (a Start and an End, both text frames).  Each
\* endpoint negotiates once: a peer connection whose negotiation has begun is
\* not replaced.  The network stays up.
HandshakeFiles == { f \in Files : f.size = 0 }

Fresh(e) ==
  /\ pc[e].signalingState \in {"none", "stable"}
  /\ Inert(pc[e])

InitHandshake ==
  /\ variant = "manual"
  /\ connectionStatus = [e \in Endpoints |-> "disconnected"]
  /\ error = [e \in Endpoints |-> ""]
  /\ selectedFile = [e \in Endpoints |-> Null]
  /\ receivedFiles = [e \in Endpoints |-> << >>]
  /\ uploadProgress = [e \in Endpoints |-> 0]
  /\ downloadProgress = [e \in Endpoints |-> 0]
  /\ transferStatus = [e \in Endpoints |-> NoStatus]
  /\ pcRef = [e \in Endpoints |-> 0]
  /\ dataChannelRef = [e \in Endpoints |-> 0]
  /\ connectionRef = [e \in Endpoints |-> 0]
  /\ incomingTransferRef = [e \in Endpoints |-> Null]
  /\ readyState = [e \in Endpoints |-> "new"]
  /\ sendBuf = [e \in Endpoints |-> << >>]
  /\ link = "up"
  /\ sends = << >>
  /\ resetTimers = [e \in Endpoints |-> 0]
  /\ sentCount = [e \in Endpoints |-> 0]
  /\ pc = [e \in Endpoints |-> NoPc]
  /\ orphans = [e \in Endpoints |-> << >>]
  /\ localSdp = [e \in Endpoints |-> EmptyText]
  /\ remoteSdp = [e \in Endpoints |-> EmptyText]
  /\ clipboard = EmptyText
  /\ myPeerId = [e \in Endpoints |-> ""]
  /\ isServerDisconnected = [e \in Endpoints |-> FALSE]
  /\ peerDisconnected = [e \in Endpoints |-> FALSE]
  /\ peerOpen = [e \in Endpoints |-> FALSE]
  /\ stale = [e \in Endpoints |-> 0]
  /\ extra = [e \in Endpoints |-> NoExtra]
  /\ AppIdle

NextHandshake ==
  \/ \E e \in Endpoints : Fresh(e) /\ CreateOffer(e)
  \/ \E e \in Endpoints : Fresh(e) /\ HandleOffer(e)
  \/ \E e \in Endpoints : HandleAnswer(e)
  \/ \E e \in Endpoints : OfferCreated(e, 0)
  \/ \E e \in Endpoints : AnswerCreated(e, 0)
  \/ \E e \in Endpoints : IceGatheringComplete(e, 0)
  \/ \E e \in Endpoints : CopyLocalSdp(e)
  \/ \E e \in Endpoints : PasteRemoteSdp(e)
  \/ \E e \in Endpoints : \E t \in {EmptyText, Garbage} : EditRemoteSdp(e, t)
  \/ \E e \in Endpoints : ChannelOpen(e)
  \/ \E e \in Endpoints : DataChannelEvent(e)
  \/ \E e \in Endpoints : \E f \in HandshakeFiles : SelectFile(e, f, MaxSends)
  \/ \E e \in Endpoints : SendFile(e, MaxSends)
  \/ \E s \in 1..MaxSends : ReadDone(s)
  \/ \E e \in Endpoints : ResetTimer(e)
  \/ \E e \in Endpoints : Drain(e)
  \/ \E e \in Endpoints : RemoteClosing(e)
  \/ \E e \in Endpoints : ChannelClosed(e)
  \/ \E e \in Endpoints : ConnectionStateChange(e)
  \/ \E e \in Endpoints : Disconnect(e)

\* The browser delivers its events and the transport makes progress; the
\* users are under no obligation to click anything.
SpecHandshake ==
  /\ InitHandshake
  /\ [][NextHandshake]_vars
  /\ \A e \in Endpoints :
       /\ WF_vars(OfferCreated(e, 0))
       /\ WF_vars(AnswerCreated(e, 0))
       /\ WF_vars(IceGatheringComplete(e, 0))
       /\ WF_vars(ChannelOpen(e))
       /\ WF_vars(DataChannelEvent(e))
       /\ WF_vars(Drain(e))
  /\ \A s \in 1..MaxSends : WF_vars(ReadDone(s))

\* The manual handshake with the buttons pressed whenever the page enables
\* them, so a handler can start while an earlier one is suspended at an
\* await, and a peer connection can be replaced.  Endpoint "A" creates up to
\* MaxSessions peer connections, "B" one.  The descriptions travel through
\* the clipboard; no file is sent.
Slots == 0..(MaxSessions - 1)

SessionLimit(e) == IF e = "A" THEN MaxSessions ELSE 1

NextSessions ==
  \/ \E e \in Endpoints : NextPcId(e) <= SessionLimit(e) /\ CreateOffer(e)
  \/ \E e \in Endpoints : NextPcId(e) <= SessionLimit(e) /\ HandleOffer(e)
  \/ \E e \in Endpoints : \E k \in Slots : OfferCreated(e, k)
  \/ \E e \in Endpoints : \E k \in Slots : AnswerCreated(e, k)
  \/ \E e \in Endpoints : HandleAnswer(e)
  \/ \E e \in Endpoints : \E k \in Slots : IceGatheringComplete(e, k)
  \/ \E e \in Endpoints : CopyLocalSdp(e)
  \/ \E e \in Endpoints : PasteRemoteSdp(e)
  \/ \E e \in Endpoints : ChannelOpen(e)
  \/ \E e \in Endpoints : DataChannelEvent(e)
  \/ \E e \in Endpoints : RemoteClosing(e)
  \/ \E e \in Endpoints : ChannelClosed(e)
  \/ \E e \in Endpoints : StaleClose(e)
  \/ \E e \in Endpoints : ConnectionStateChange(e)
  \/ \E e \in Endpoints : Disconnect(e)

SpecSessions == InitHandshake /\ [][NextSessions]_vars

\* The broker variant from two freshly mounted components: registration with
\* the broker, disconnection and reconnection, one data connection, one send
\* of a two-chunk file.
BrokerFiles == { [name |-> "two.bin", type |-> "", size |-> CHUNK_SIZE + 1] }

InitBroker ==
  /\ variant = "broker"
  /\ connectionStatus = [e \in Endpoints |-> "Disconnected"]
  /\ error = [e \in Endpoints |-> ""]
  /\ selectedFile = [e \in Endpoints |-> Null]
  /\ receivedFiles = [e \in Endpoints |-> << >>]
  /\ uploadProgress = [e \in Endpoints |-> 0]
  /\ downloadProgress = [e \in Endpoints |-> 0]
  /\ transferStatus = [e \in Endpoints |-> NoStatus]
  /\ pcRef = [e \in Endpoints |-> 0]
  /\ dataChannelRef = [e \in Endpoints |-> 0]
  /\ connectionRef = [e \in Endpoints |-> 0]
  /\ incomingTransferRef = [e \in Endpoints |-> Null]
  /\ readyState = [e \in Endpoints |-> "new"]
  /\ sendBuf = [e \in Endpoints |-> << >>]
  /\ link = "up"
  /\ sends = << >>
  /\ resetTimers = [e \in Endpoints |-> 0]
  /\ sentCount = [e \in Endpoints |-> 0]
  /\ pc = [e \in Endpoints |-> NoPc]
  /\ orphans = [e \in Endpoints |-> << >>]
  /\ localSdp = [e \in Endpoints |-> EmptyText]
  /\ remoteSdp = [e \in Endpoints |-> EmptyText]
  /\ clipboard = EmptyText
  /\ myPeerId = [e \in Endpoints |-> ""]
  /\ isServerDisconnected = [e \in Endpoints |-> FALSE]
  /\ peerDisconnected = [e \in Endpoints |-> FALSE]
  /\ peerOpen = [e \in Endpoints |-> FALSE]
  /\ stale = [e \in Endpoints |-> 0]
  /\ extra = [e \in Endpoints |-> NoExtra]
  /\ AppIdle

NextBroker ==
  \/ \E e \in Endpoints : ServerOpen(e)
  \/ \E e \in Endpoints : DisconnectFromServer(e)
  \/ \E e \in Endpoints : ServerLost(e)
  \/ \E e \in Endpoints : ReconnectToServer(e)
  \/ \E e \in Endpoints : ConnectToPeer(e)
  \/ \E e \in Endpoints : IncomingConnection(e)
  \/ \E e \in Endpoints : ConnOpen(e)
  \/ \E e \in Endpoints : \E f \in BrokerFiles : SelectFile(e, f, MaxSends)
  \/ \E e \in Endpoints : SendFile(e, MaxSends)
  \/ \E s \in 1..MaxSends : ReadDone(s)
  \/ \E s \in 1..MaxSends : DelayTimer(s)
  \/ \E e \in Endpoints : ResetTimer(e)
  \/ \E e \in Endpoints : Drain(e)
  \/ LinkDown
  \/ \E e \in Endpoints : RemoteClosing(e)
  \/ \E e \in Endpoints : ChannelClosed(e)

SpecBroker == InitBroker /\ [][NextBroker]_vars

\* The receiver against an arbitrary peer: the other end of the channel is
\* some program that puts any of the protocol's messages on the wire in any
\* order, up to MaxReceived of them.
WireFile == [name |-> "wire.txt", type |-> "text/plain", size |-> 2 * CHUNK_SIZE]

\* Messages no branch of the handlers takes: a text frame that is not JSON
\* (manual: JSON.parse throws inside channel.onmessage, which ends the
\* handler; broker: the data is not an object with a type), and a message
\* whose type is none of the protocol's.
UnprocessableMessages(q) ==
  { [type |-> "not-json", sid |-> 0, seq |-> q],
    [type |-> "file-unknown", sid |-> 0, seq |-> q] }

\* The messages such a peer can send as its q-th (ghost tags: invocation 0,
\* position q): the Start of a two-chunk file, either chunk, an End and, in
\* the broker variant, a chunk whose index is past the announced count.
WireMessages(q) ==
  {StartMessage(WireFile, 0, q), EndMessage(0, q)}
    \cup { ChunkMessage(WireFile, i, 0, q) : i \in 0..1 }
    \cup (IF variant = "broker"
          THEN {[ChunkMessage(WireFile, 0, 0, q) EXCEPT !.index = 3]}
          ELSE {})
    \cup UnprocessableMessages(q)

\* The endpoint that faces such a peer.
Receivers == {"B"}

\* The message event of endpoint e with message m from such a peer.
Receive(e, m) ==
  /\ readyState[e] = "open"
  /\ sentCount[Peer(e)] < MaxReceived
  /\ sentCount' = [sentCount EXCEPT ![Peer(e)] = @ + 1]
  /\ OnMessage(e, m)
  /\ UNCHANGED << appVars, extra, stale, sdpVars, peerVars, variant, connectionStatus, error,
                  selectedFile, uploadProgress, pcRef, dataChannelRef,
                  connectionRef, readyState, sendBuf, link, sends,
                  resetTimers >>

NextReceiver ==
  \/ \E e \in Endpoints : ChannelOpen(e)
  \/ \E e \in Endpoints : DataChannelEvent(e)
  \/ \E e \in Endpoints : IncomingConnection(e)
  \/ \E e \in Endpoints : ConnOpen(e)
  \/ \E e \in Receivers :
        \E m \in WireMessages(sentCount[Peer(e)] + 1) : Receive(e, m)

SpecReceiver == Init /\ [][NextReceiver]_vars

\* The same receiver on a channel that can also be closed, from either
\* side, or disconnected.
NextReceiverClose ==
  \/ \E e \in Endpoints : ChannelOpen(e)
  \/ \E e \in Endpoints : DataChannelEvent(e)
  \/ \E e \in Endpoints : IncomingConnection(e)
  \/ \E e \in Endpoints : ConnOpen(e)
  \/ \E e \in Receivers :
        \E m \in WireMessages(sentCount[Peer(e)] + 1) : Receive(e, m)
  \/ \E e \in Endpoints : RemoteClosing(e)
  \/ \E e \in Endpoints : ChannelClosed(e)
  \/ \E e \in Endpoints : Disconnect(e)

SpecReceiverClose == Init /\ [][NextReceiverClose]_vars

\* The broker receiver with two data connections: the one with the other
\* endpoint, on which a whole two-chunk transfer can arrive (Start, two
\* chunks, End), and one with a third peer.
InitConnections == Init /\ variant = "broker"

NextConnections ==
  \/ \E e \in Endpoints : IncomingConnection(e)
  \/ \E e \in Endpoints : ConnOpen(e)
  \/ \E e \in Receivers :
        \E m \in WireMessages(sentCount[Peer(e)] + 1) :
          sentCount[Peer(e)] < MaxWire /\ Receive(e, m)
  \/ \E e \in Receivers : ExtraIncoming(e)
  \/ \E e \in Receivers : ExtraOpen(e)
  \/ \E e \in Receivers : \E m \in ExtraMessages(extra[e].n + 1) : ExtraData(e, m)
  \/ \E e \in Receivers : ExtraClose(e)

SpecConnections == InitConnections /\ [][NextConnections]_vars

\* One send of a long file on a channel that stays up, chunk by chunk, with
\* a transport that keeps up with the broker's 10 ms pace (each message is
\* delivered before the next delay ends): the files whose chunk counts make
\* 100 * (i + 1) / totalChunks hit halves.
ProgressFiles ==
  { [name |-> "eight.bin", type |-> "", size |-> 8 * CHUNK_SIZE],
    [name |-> "forty.bin", type |-> "", size |-> 40 * CHUNK_SIZE] }

\* The state once the channel of Init has opened on both endpoints
\* (ChannelOpen and DataChannelEvent, or IncomingConnection and ConnOpen).
InitProgress ==
  /\ variant \in Variants
  /\ connectionStatus =
       [e \in Endpoints |-> IF variant = "manual" THEN "connected" ELSE "Connected"]
  /\ error = [e \in Endpoints |-> ""]
  /\ selectedFile = [e \in Endpoints |-> Null]
  /\ receivedFiles = [e \in Endpoints |-> << >>]
  /\ uploadProgress = [e \in Endpoints |-> 0]
  /\ downloadProgress = [e \in Endpoints |-> 0]
  /\ transferStatus = [e \in Endpoints |-> NoStatus]
  /\ pcRef = [e \in Endpoints |-> IF variant = "manual" THEN 1 ELSE 0]
  /\ dataChannelRef = [e \in Endpoints |-> IF variant = "manual" THEN 1 ELSE 0]
  /\ connectionRef = [e \in Endpoints |-> IF variant = "broker" THEN 1 ELSE 0]
  /\ incomingTransferRef = [e \in Endpoints |-> Null]
  /\ readyState = [e \in Endpoints |-> "open"]
  /\ sendBuf = [e \in Endpoints |-> << >>]
  /\ link = "up"
  /\ sends = << >>
  /\ resetTimers = [e \in Endpoints |-> 0]
  /\ sentCount = [e \in Endpoints |-> 0]
  /\ pc = [e \in Endpoints |->
            IF variant = "broker" THEN NoPc
            ELSE IF e = "A"
            THEN [NewPc(1) EXCEPT !.local = Offer("A", 1),
                                  !.remote = Answer("B", 1), !.gathered = TRUE]
            ELSE [NewPc(1) EXCEPT !.local = Answer("B", 1),
                                  !.remote = Offer("A", 1), !.gathered = TRUE]]
  /\ orphans = [e \in Endpoints |-> << >>]
  /\ localSdp = [e \in Endpoints |->
                  IF variant = "broker" THEN EmptyText
                  ELSE Stringify(IF e = "A" THEN Offer("A", 1) ELSE Answer("B", 1))]
  /\ remoteSdp = [e \in Endpoints |->
                   IF variant = "broker" THEN EmptyText
                   ELSE Stringify(IF e = "A" THEN Answer("B", 1) ELSE Offer("A", 1))]
  /\ clipboard = IF variant = "broker" THEN EmptyText ELSE Stringify(Answer("B", 1))
  /\ myPeerId = [e \in Endpoints |-> IF variant = "broker" THEN e ELSE ""]
  /\ isServerDisconnected = [e \in Endpoints |-> FALSE]
  /\ peerDisconnected = [e \in Endpoints |-> FALSE]
  /\ peerOpen = [e \in Endpoints |-> variant = "broker"]
  /\ stale = [e \in Endpoints |-> 0]
  /\ extra = [e \in Endpoints |-> NoExtra]
  /\ AppIdle

NextProgress ==
  \/ \E e \in Endpoints : \E f \in ProgressFiles : SelectFile(e, f, MaxSends)
  \/ \E e \in Endpoints : SendFile(e, MaxSends)
  \/ \E s \in 1..MaxSends : ReadDone(s)
  \/ \E s \in 1..MaxSends : PollTimer(s)
  \/ \E s \in 1..MaxSends : DelayTimer(s) /\ sendBuf[sends[s].owner] = << >>
  \/ \E e \in Endpoints : Drain(e)

SpecProgress == InitProgress /\ [][NextProgress]_vars

\* Sends, overlapping or not, on a channel that stays open and a transport
\* that keeps draining: a pending file.arrayBuffer() resolves, a pending
\* setTimeout fires, a queued message is delivered.
TerminationFiles(v) == OverlapFiles(v) \cup HandshakeFiles

NextTermination ==
  \/ \E e \in Endpoints : \E f \in TerminationFiles(variant) :
        SelectFile(e, f, MaxOverlap)
  \/ \E e \in Endpoints : SendFile(e, MaxOverlap)
  \/ \E s \in 1..MaxOverlap : ReadDone(s)
  \/ \E s \in 1..MaxOverlap : PollTimer(s)
  \/ \E s \in 1..MaxOverlap : DelayTimer(s)
  \/ \E e \in Endpoints : Drain(e)

\* What invocation s is suspended at, when its promise or timer can run
\* on: ENABLED of ReadDone(s), PollTimer(s) and DelayTimer(s).
Resumable(s) ==
  /\ s \in 1..Len(sends)
  /\ \/ sends[s].pc = "reading"
     \/ /\ variant = "manual"
        /\ sends[s].pc = "waiting"
        /\ ~BackpressureExceeded(BufferedAmount(sendBuf[sends[s].owner]))
     \/ variant = "broker" /\ sends[s].pc = "delay"

\* Weak fairness of the transport and of each invocation's continuation
\* (WF of ReadDone(s) \/ PollTimer(s) \/ DelayTimer(s), with its ENABLED
\* written out).
SpecTermination ==
  /\ InitProgress
  /\ [][NextTermination]_vars
  /\ \A e \in Endpoints : WF_vars(Drain(e))
  /\ \A s \in 1..MaxOverlap :
       \/ []<>(~Resumable(s))
       \/ []<><<ReadDone(s) \/ PollTimer(s) \/ DelayTimer(s)>>_vars

\* ---------------------------------------------------------------- claims
Invocations == 1..Len(sends)

\* The messages one invocation has emitted, in order.
Emitted(s) == [k \in 1..Len(sends[s].log) |-> sends[s].log[k].m]

\* The chunk entries of a log.
ChunkEntries(s) ==
  { k \in 1..Len(sends[s].log) :
      sends[s].log[k].m.type \in {"binary", "file-chunk"} }

\* What a whole send of file f emits at position k (1-based) of its
\* 1 + n + 1 messages, n the number of chunks announced: Start, the chunks in
\* index order, End.
IsExpectedAt(m, k, n) ==
  IF k = 1 THEN m.type = "file-start"
  ELSE IF k <= n + 1
  THEN /\ m.type \in {"binary", "file-chunk"}
       /\ m.data.from = (k - 2) * CHUNK_SIZE
       /\ m.type = "file-chunk" => m.index = k - 2
  ELSE k = n + 2 /\ m.type = "file-end"

\* A completed file that one invocation alone produced: its Start, every
\* chunk in the buffer and its End come from the same sendFile invocation.
Clean(rf) ==
  /\ rf.g.startSid = rf.g.endSid
  /\ \A k \in 1..Len(rf.g.parts) :
       rf.g.parts[k] # Hole => rf.g.parts[k].sid = rf.g.startSid

\* C1: round trip.  A CompletedFile assembled from the Start, the chunks and
\* the End of one sendFile invocation has exactly the bytes of the file that
\* invocation sent, in order, under the file's name; in both variants and for
\* the empty file.
C1_RoundTrip ==
  \A e \in Endpoints : \A k \in 1..Len(receivedFiles[e]) :
    LET rf == receivedFiles[e][k] IN
    Clean(rf) =>
      /\ rf.data = FileBytes(sends[rf.g.startSid].file)
      /\ rf.name = sends[rf.g.startSid].file.name
      /\ BlobSize(rf.data) = sends[rf.g.startSid].file.size

\* C1 witness: the five-chunk file arrived whole over the broker channel.
C1_Witness ==
  /\ variant = "broker"
  /\ \E k \in 1..Len(receivedFiles["B"]) :
       /\ Clean(receivedFiles["B"][k])
       /\ Len(receivedFiles["B"][k].g.parts) = 5
       /\ receivedFiles["B"][k].data = << [src |-> "big.bin", from |-> 0,
                                           to |-> 4 * CHUNK_SIZE + 1] >>

\* C2: one sendFile invocation whose sends all reach an open channel emits
\* Start, then the chunks in index order 0..totalChunks-1, then End, and
\* nothing else: at every moment what it has emitted is a prefix of that
\* sequence, and once it has finished it is the whole sequence.
C2_SendOrder ==
  \A s \in Invocations :
    ~sends[s].failed =>
      /\ Len(sends[s].log) <= sends[s].total + 2
      /\ \A k \in 1..Len(sends[s].log) :
           IsExpectedAt(sends[s].log[k].m, k, sends[s].total)
      /\ sends[s].pc = "done" => Len(sends[s].log) = sends[s].total + 2

\* C2 witness: the 200,000-byte file was sent as one Start, four chunks and
\* one End by the manual sender.
C2_Witness ==
  /\ variant = "manual"
  /\ \E s \in Invocations :
       /\ sends[s].file.size = 200000
       /\ sends[s].pc = "done"
       /\ Len(sends[s].log) = 6
       /\ Cardinality(ChunkEntries(s)) = 4

\* C3 (as claimed): a CompletedFile emitted by an End that arrived with
\* receivedCount = totalChunks has the Start's fileType as its type and the
\* Start's totalSize as its byte length.
C3_CompleteFileMatchesStart ==
  \A e \in Endpoints : \A k \in 1..Len(receivedFiles[e]) :
    LET rf == receivedFiles[e][k] IN
    rf.g.receivedCount = rf.g.totalChunks =>
      /\ rf.type = rf.g.fileType
      /\ BlobSize(rf.data) = rf.g.totalSize

\* A Start is the next message endpoint e receives, and this step delivers it.
StartArrives(e) ==
  /\ sendBuf[Peer(e)] # << >>
  /\ IsStart(Head(sendBuf[Peer(e)]))
  /\ sendBuf'[Peer(e)] = Tail(sendBuf[Peer(e)])
  /\ readyState[e] \in {"open", "closing"}

\* C4: a Start received while a transfer is in progress replaces the buffer
\* by a fresh one of the new totalChunks empty slots with receivedCount 0,
\* and no chunk that arrived before a transfer's Start is in that transfer's
\* buffer or in the CompletedFile made from it.
C4_StartResets ==
  /\ [][\A e \in Endpoints :
          (StartArrives(e) /\ incomingTransferRef[e] # Null) =>
            /\ incomingTransferRef'[e].chunks =
                 NewArray(Head(sendBuf[Peer(e)]).totalChunks)
            /\ incomingTransferRef'[e].receivedCount = 0
            /\ incomingTransferRef'[e].totalChunks =
                 Head(sendBuf[Peer(e)]).totalChunks]_vars
  /\ [](\A e \in Endpoints :
          /\ incomingTransferRef[e] # Null =>
               \A k \in 1..Len(incomingTransferRef[e].chunks) :
                 incomingTransferRef[e].chunks[k] # Hole =>
                   incomingTransferRef[e].chunks[k].seq > incomingTransferRef[e].startSeq
          /\ \A j \in 1..Len(receivedFiles[e]) :
               \A k \in 1..Len(receivedFiles[e][j].g.parts) :
                 receivedFiles[e][j].g.parts[k] # Hole =>
                   receivedFiles[e][j].g.parts[k].seq > receivedFiles[e][j].g.startSeq)

\* C4 witness: a file was completed from a transfer whose Start had arrived
\* while an earlier transfer, with chunks already buffered, was in progress.
C4_Witness ==
  \E j \in 1..Len(receivedFiles["B"]) :
    /\ receivedFiles["B"][j].g.preempted
    /\ receivedFiles["B"][j].g.startSeq > 2
    /\ \E k \in 1..Len(receivedFiles["B"][j].g.parts) :
         receivedFiles["B"][j].g.parts[k] # Hole

\* C5: no spurious completion.  When the channel of an endpoint closes (or is
\* closed) while a transfer is in progress there, the transfer stays as it is
\* and no CompletedFile is emitted: the close handlers and disconnect leave
\* incomingTransferRef and receivedFiles alone, and nothing is delivered on a
\* closed channel.
C5_NoSpuriousCompletion ==
  [][\A e \in Endpoints :
       (incomingTransferRef[e] # Null /\ readyState'[e] = "closed") =>
         /\ incomingTransferRef'[e] = incomingTransferRef[e]
         /\ receivedFiles'[e] = receivedFiles[e]]_vars

\* C5 witness: the channel is closed at the receiver after 2 of 4 chunks; the
\* transfer is still in progress.
C5_Witness ==
  /\ readyState["B"] = "closed"
  /\ incomingTransferRef["B"] # Null
  /\ incomingTransferRef["B"].totalChunks = 4
  /\ incomingTransferRef["B"].receivedCount = 2
  /\ receivedFiles["B"] = << >>

\* The Initiator e has applied the answer the Responder made to its offer.
AnswerApplied(e) ==
  /\ pc[e].local = Offer(e, 1)
  /\ pc[e].remote = Answer(Peer(e), 1)
  /\ pc[e].signalingState = "stable"
  /\ pc[Peer(e)].local = Answer(Peer(e), 1)
  /\ pc[Peer(e)].remote = Offer(e, 1)
  /\ localSdp[Peer(e)] = Stringify(Answer(Peer(e), 1)) \/ pc[Peer(e)].signalingState = "closed"

\* Somebody pressed Disconnect, or fed a further description to a peer
\* connection (Set Remote Answer pressed again with an offer in the field).
Aborted ==
  \E e \in Endpoints : pc[e].signalingState \in {"closed", "have-remote-offer"}

BothOpen ==
  \A e \in Endpoints : connectionStatus[e] = "connected" /\ readyState[e] = "open"

\* Invocation s has sent its Start.
StartSent(s) == IF s \in Invocations THEN sends[s].log # << >> ELSE FALSE

\* The Start of invocation s has reached the message handler of the endpoint
\* other than its sender.
StartDelivered(s) ==
  IF s \in Invocations
  THEN LET e == Peer(sends[s].owner) IN
       \/ IF incomingTransferRef[e] # Null
          THEN incomingTransferRef[e].startSid = s ELSE FALSE
       \/ \E k \in 1..Len(receivedFiles[e]) : receivedFiles[e][k].g.startSid = s
  ELSE FALSE

\* C6: manual handshake liveness.  Once the Initiator has applied the answer
\* the Responder exported for its offer, both endpoints reach 'connected'
\* with the channel open, whatever else the users do or leave undone (unless
\* somebody disconnects or applies a further description to a peer
\* connection); an endpoint becomes 'connected' straight from
\* 'creating-offer' or 'awaiting-answer'; and a text message (the Start)
\* sent on the open channel reaches the other end's handler with the fields
\* it was sent with.
C6_HandshakeLiveness ==
  /\ \A e \in Endpoints : AnswerApplied(e) ~> (BothOpen \/ Aborted)
  /\ [][\A e \in Endpoints :
          (connectionStatus[e] # "connected" /\ connectionStatus'[e] = "connected")
            => connectionStatus[e] \in {"creating-offer", "awaiting-answer"}]_vars
  /\ \A s \in 1..MaxSends :
       StartSent(s) ~> (StartDelivered(s) \/ Aborted)
  /\ [](\A e \in Endpoints :
          incomingTransferRef[e] # Null =>
            LET t == incomingTransferRef[e]
                f == sends[t.startSid].file
            IN /\ t.name = f.name
               /\ t.fileType = StartFileType(f)
               /\ t.totalChunks = TotalChunks(f.size)
               /\ t.totalSize = f.size)

\* C6 witness: after a handshake in which "B" was the Initiator and nobody
\* disconnected, both ends are connected and the file "A" sent has arrived.
C6_Witness ==
  /\ AnswerApplied("B")
  /\ BothOpen
  /\ ~Aborted
  /\ Len(receivedFiles["B"]) = 1
  /\ receivedFiles["B"][1].name = "empty.bin"

\* Bytes of the control frames (Start, End) in a send buffer.
RECURSIVE CtrlBytes(_)
CtrlBytes(q) ==
  IF q = << >> THEN 0
  ELSE (IF Head(q).type \in {"file-start", "file-end"} THEN MsgBytes(Head(q)) ELSE 0)
       + CtrlBytes(Tail(q))

\* C7 (as claimed): the manual sender adds no bytes to the outbound queue
\* while the gauge is above 4 x CHUNK_SIZE.
C7_NoSendAboveThreshold ==
  variant = "manual" =>
    \A s \in Invocations : \A k \in 1..Len(sends[s].log) : ~sends[s].log[k].over

\* C7 (amended): the manual sender adds no Chunk while the gauge is above
\* 4 x CHUNK_SIZE, so the chunk bytes queued never exceed 5 x CHUNK_SIZE; only
\* the Start and End control frames are sent without consulting the gauge.
C7_NoChunkAboveThreshold ==
  variant = "manual" =>
    /\ \A s \in Invocations : \A k \in ChunkEntries(s) : ~sends[s].log[k].over
    /\ \A e \in Endpoints :
         BufferedAmount(sendBuf[e]) - CtrlBytes(sendBuf[e]) <= 5 * CHUNK_SIZE

\* C7 witness: a manual sendFile is suspended in the backlog wait with the
\* gauge above the threshold, chunks already sent.
C7_Witness ==
  /\ variant = "manual"
  /\ \E s \in Invocations :
       /\ sends[s].pc = "waiting"
       /\ ChunkEntries(s) # {}
       /\ BufferedAmount(sendBuf[sends[s].owner]) > 4 * CHUNK_SIZE

\* C8 (as claimed): in both variants every Chunk is sent with the gauge at
\* most 4 x CHUNK_SIZE.
C8_ChunkSendsBelowThreshold ==
  \A s \in Invocations : \A k \in ChunkEntries(s) : ~sends[s].log[k].over

\* C9: the totalChunks announced in a Start is ceil(totalSize / CHUNK_SIZE)
\* (the least n with n * CHUNK_SIZE >= totalSize), it is 0 exactly when
\* totalSize is 0, totalSize is the file's size, and an invocation that
\* finished with every send on an open channel sent that many chunks.
C9_TotalChunks ==
  \A s \in Invocations : \A k \in 1..Len(sends[s].log) :
    LET m == sends[s].log[k].m IN
    m.type = "file-start" =>
      /\ m.totalSize = sends[s].file.size
      /\ m.totalChunks * CHUNK_SIZE >= m.totalSize
      /\ m.totalChunks > 0 => (m.totalChunks - 1) * CHUNK_SIZE < m.totalSize
      /\ (m.totalChunks = 0) <=> (m.totalSize = 0)
      /\ (sends[s].pc = "done" /\ ~sends[s].failed) =>
           Cardinality(ChunkEntries(s)) = m.totalChunks

\* C9 witness: a send of the 200,000-byte file has finished: 4 chunks were
\* announced and 4 were sent.
C9_Witness ==
  \E s \in Invocations :
    /\ sends[s].pc = "done" /\ ~sends[s].failed
    /\ sends[s].file.size = 200000
    /\ sends[s].log[1].m.totalChunks = 4
    /\ Cardinality(ChunkEntries(s)) = 4

\* C10 (as claimed): a sendFile invoked while the channel is not open is
\* rejected: it sends nothing and goes no further than its guards, so no
\* transfer state changes.
C10_RejectedWhenNotOpen ==
  \A s \in Invocations :
    ~sends[s].openAtInvoke => (sends[s].pc = "reading" /\ sends[s].log = << >>)

\* C11: createOffer invoked while the endpoint already has a peer connection
\* (a createOffer or handleOffer is suspended at an await, or has completed)
\* fails with an error, creates no peer connection and no channel, and leaves
\* the existing ones in place.
C11_CreateOfferOnlyWhenIdle ==
  [][\A e \in Endpoints :
       CreateOffer(e) /\ pcRef[e] # 0 =>
         /\ error'[e] # ""
         /\ pc'[e] = pc[e]
         /\ orphans'[e] = orphans[e]
         /\ dataChannelRef'[e] = dataChannelRef[e]
         /\ readyState'[e] = readyState[e]]_vars

\* C12: handleAnswer invoked while the peer connection has no local offer
\* outstanding applies no remote description to it and changes neither the
\* connection status nor the refs.
C12_AnswerOnlyWhenOfferOutstanding ==
  [][\A e \in Endpoints :
       HandleAnswer(e) /\ pc[e].signalingState # "have-local-offer" =>
         /\ pc'[e] = pc[e]
         /\ connectionStatus'[e] = connectionStatus[e]
         /\ pcRef'[e] = pcRef[e]
         /\ dataChannelRef'[e] = dataChannelRef[e]]_vars

\* A step of endpoint e in which the transport fails: the connection state
\* becomes failed / disconnected, or the peer connection throws on creating
\* or applying a description and the handler ends in its catch.
HandshakeErrors ==
  {"Failed to create offer", "Failed to create answer", "Failed to set remote answer"}

TransportFailure(e) ==
  \/ ConnectionStateChange(e)
  \/ /\ OfferCreated(e, 0) \/ AnswerCreated(e, 0)
        \/ (HandleAnswer(e) /\ Parse(remoteSdp[e]) # SyntaxError)
     /\ error'[e] \in HandshakeErrors

\* C13: a transport-level failure releases the session: the peer connection
\* is closed and both handles are null afterwards.
C13_FailureReleasesSession ==
  [][\A e \in Endpoints :
       TransportFailure(e) =>
         /\ pcRef'[e] = 0
         /\ dataChannelRef'[e] = 0
         /\ pc'[e].signalingState \in {"none", "closed"}]_vars

\* C14: whenever a description appears in localSdp, it is the local
\* description of the peer connection pcRef.current points to, and that peer
\* connection has reported the end of candidate gathering.
C14_ExportOnlyForCurrentSession ==
  [][\A e \in Endpoints :
       localSdp'[e] # localSdp[e] /\ localSdp'[e] # EmptyText =>
         /\ pcRef'[e] # 0
         /\ pc'[e].gathered
         /\ localSdp'[e] = Stringify(pc'[e].local)]_vars

\* C15: the broker's 'disconnected' event (after disconnect() or after the
\* socket to the broker is lost) leaves an open data connection as it is:
\* connectionRef, incomingTransferRef, receivedFiles, the connection's state
\* and queue and the running invocations are unchanged and a sendFile that
\* would be accepted still is; and every step of a sendFile on an open
\* connection still queues a message while the Peer is disconnected.
C15_ServerDisconnectKeepsConnection ==
  /\ [][\A e \in Endpoints :
          DisconnectFromServer(e) \/ ServerLost(e) =>
            /\ connectionRef' = connectionRef
            /\ incomingTransferRef' = incomingTransferRef
            /\ receivedFiles' = receivedFiles
            /\ readyState' = readyState
            /\ sendBuf' = sendBuf
            /\ sends' = sends
            /\ SendAccepted(e) => SendAccepted(e)']_vars
  /\ [][\A s \in 1..MaxSends :
          /\ ReadDone(s) \/ DelayTimer(s)
          /\ peerDisconnected[sends[s].owner]
          /\ IsOpen(sends[s].owner)
          => sentCount'[sends[s].owner] > sentCount[sends[s].owner]]_vars

\* Both Peers are disconnected from the broker in the middle of a transfer
\* over an open connection.
C15_Witness ==
  /\ \A e \in Endpoints : peerDisconnected[e] /\ isServerDisconnected[e]
  /\ \A e \in Endpoints : connectionRef[e] = 1 /\ IsOpen(e)
  /\ Len(sends) = 1
  /\ sends[1].pc = "delay"
  /\ sends[1].log # << >>
  /\ incomingTransferRef["B"] # Null
  /\ incomingTransferRef["B"].receivedCount > 0

\* C16: while the Peer is disconnected from the broker, connectToPeer creates
\* no connection and leaves the connection handle as it is.
C16_NoConnectWhileDisconnected ==
  [][\A e \in Endpoints :
       ConnectToPeer(e) /\ peerDisconnected[e] =>
         /\ connectionRef'[e] = connectionRef[e]
         /\ readyState' = readyState]_vars

\* The slots of a reassembly buffer that hold a chunk.
FilledSlots(t) == { k \in 1..Len(t.chunks) : t.chunks[k] # Hole }

\* C17: receivedCount of a transfer in progress is the number of slots of
\* its buffer that hold a chunk.
C17_ReceivedCountMatchesSlots ==
  \A e \in Endpoints :
    incomingTransferRef[e] # Null =>
      incomingTransferRef[e].receivedCount = Cardinality(FilledSlots(incomingTransferRef[e]))

\* C18: once the channel of an endpoint is closed (the close event was
\* handled, or disconnect() ran), the endpoint has no incoming transfer in
\* progress.
C18_ClosedChannelDropsTransfer ==
  \A e \in Endpoints :
    readyState[e] = "closed" => incomingTransferRef[e] = Null

\* C19: a sendFile invocation that is in the backlog wait when its channel
\* is closed can leave the wait: the gauge is not above the limit, so the
\* next poll lets the invocation run on and end.  (Nothing drains a closed
\* channel, so an invocation for which this fails polls for ever.)
C19_ClosedChannelEndsWait ==
  \A s \in Invocations :
    sends[s].pc = "waiting" /\ readyState[sends[s].owner] = "closed" =>
      ~BackpressureExceeded(BufferedAmount(sendBuf[sends[s].owner]))

\* C20: an End that arrives while a transfer is in progress appends exactly
\* one entry to receivedFiles, with the name and fileType of the Start and
\* all slots of the buffer in index order as data, whatever receivedCount
\* is; the transfer is cleared, downloadProgress is 0 and the transfer status
\* is empty afterwards.
C20_EndAssembles ==
  [][\A e \in Endpoints :
       /\ incomingTransferRef[e] # Null
       /\ Receive(e, EndMessage(0, sentCount[Peer(e)] + 1))
       => LET t == incomingTransferRef[e]
              n == Len(receivedFiles[e])
          IN /\ Len(receivedFiles'[e]) = n + 1
             /\ SubSeq(receivedFiles'[e], 1, n) = receivedFiles[e]
             /\ receivedFiles'[e][n + 1].name = t.name
             /\ receivedFiles'[e][n + 1].type = t.fileType
             /\ receivedFiles'[e][n + 1].data = BlobData(t.chunks)
             /\ incomingTransferRef'[e] = Null
             /\ downloadProgress'[e] = 0
             /\ transferStatus'[e] = NoStatus]_vars

\* Files were assembled from a transfer that had received no chunk at all and
\* from one that had received more chunks than announced.
C20_Witness ==
  \E e \in Endpoints :
    /\ \E k \in 1..Len(receivedFiles[e]) :
         /\ receivedFiles[e][k].g.receivedCount = 0
         /\ receivedFiles[e][k].g.totalChunks = 2
    /\ \E d \in Endpoints : \E k \in 1..Len(receivedFiles[d]) :
         receivedFiles[d][k].g.receivedCount > receivedFiles[d][k].g.totalChunks

\* C21: a message that cannot be processed (a text frame that is not JSON,
\* a message of unknown type) arriving during a transfer discards the
\* transfer: the reassembler is idle afterwards.
C21_UnprocessableDiscardsTransfer ==
  [][\A e \in Endpoints :
       \A m \in UnprocessableMessages(sentCount[Peer(e)] + 1) :
         incomingTransferRef[e] # Null /\ Receive(e, m) =>
           incomingTransferRef'[e] = Null]_vars

\* The state of the session of endpoint e on the Initiator path, as a rank:
\* 0 Idle (no peer connection), 1 CreatingOffer (createOffer is running, or
\* the offer is set but not exported yet), 2 OfferReady / AwaitingRemoteAnswer
\* (the offer is in localSdp, no answer applied), 3 the answer is applied,
\* 4 Open (the channel reported open).  -1 is a session that is not on the
\* Initiator path.
InitiatorRank(e) ==
  CASE pcRef[e] = 0 -> 0
    [] pcRef[e] # 0 /\ pc[e].pending = [op |-> "createOffer"] -> 1
    [] pcRef[e] # 0 /\ pc[e].pending = NoCall /\ pc[e].local.type = "offer" ->
         IF pc[e].remote = NoDesc
         THEN IF localSdp[e] = Stringify(pc[e].local) /\ pc[e].gathered THEN 2 ELSE 1
         ELSE IF pc[e].remote.type = "answer" /\ pc[e].signalingState = "stable"
         THEN IF connectionStatus[e] = "connected" THEN 4 ELSE 3
         ELSE -1
    [] OTHER -> -1

\* A step by which a session may leave the path: disconnect(), a close of
\* the channel, or a failure.
LeavesPath(e) ==
  \/ Disconnect(e)
  \/ ChannelClosed(e)
  \/ TransportFailure(e)

\* C22: a session on the Initiator path moves through Idle, CreatingOffer,
\* OfferReady / AwaitingRemoteAnswer, answer applied, Open one state at a
\* time and never backwards, unless it is disconnected or fails; and it is
\* Open only with its offer exported and the remote answer applied.
C22_InitiatorOrder ==
  /\ [][\A e \in Endpoints :
          InitiatorRank(e) >= 1 /\ ~LeavesPath(e) =>
            InitiatorRank(e)' \in {InitiatorRank(e), InitiatorRank(e) + 1}]_vars
  /\ [][\A e \in Endpoints :
          InitiatorRank(e) = 0 /\ InitiatorRank(e)' >= 0 =>
            InitiatorRank(e)' \in {0, 1}]_vars
  /\ [](\A e \in Endpoints :
          connectionStatus[e] = "connected" /\ pc[e].local.type = "offer" =>
            /\ pc[e].gathered
            /\ pc[e].remote.type = "answer")

\* C23: the channel handle of an endpoint (dataChannelRef, connectionRef) is
\* set only while its channel is open.
C23_HandleOnlyWhenOpen ==
  \A e \in Endpoints :
    dataChannelRef[e] # 0 \/ connectionRef[e] # 0 => readyState[e] = "open"

\* C24: after disconnect() the data channel and the peer connection of the
\* endpoint are closed, both handles are null, the status is 'disconnected'
\* and both SDP fields are empty, whatever the state it was pressed in.
C24_DisconnectReleases ==
  [][\A e \in Endpoints :
       Disconnect(e)
       => /\ dataChannelRef'[e] = 0
          /\ pcRef'[e] = 0
          /\ readyState'[e] = "closed"
          /\ pc'[e].signalingState \in {"none", "closed"}
          /\ connectionStatus'[e] = "disconnected"
          /\ localSdp'[e] = EmptyText
          /\ remoteSdp'[e] = EmptyText]_vars

\* Disconnect was pressed on both sides of a completed exchange, on the
\* initiator after its channel had been set up and the answer applied.
C24_Witness ==
  /\ \A e \in Endpoints :
       /\ pc[e].signalingState = "closed"
       /\ pcRef[e] = 0
       /\ dataChannelRef[e] = 0
       /\ connectionStatus[e] = "disconnected"
       /\ localSdp[e] = EmptyText
  /\ pc["A"].remote.type = "answer"
  /\ pc["B"].local.type = "answer"

\* C25: a step of a sendFile invocation leaves the selection alone when the
\* selected file is not the one the invocation is sending (it was selected
\* later).
C25_SendKeepsLaterSelection ==
  [][\A s \in 1..MaxOverlap :
       /\ ReadDone(s) \/ PollTimer(s) \/ DelayTimer(s)
       /\ selectedFile[sends[s].owner] # sends[s].file
       => selectedFile'[sends[s].owner] = selectedFile[sends[s].owner]]_vars

\* C26: the buffer of the transfer in progress has exactly totalChunks slots,
\* receivedCount is at most totalChunks and the download progress shown is
\* between 0 and 100.
C26_BufferWithinBounds ==
  \A e \in Endpoints :
    incomingTransferRef[e] # Null =>
      /\ Len(incomingTransferRef[e].chunks) = incomingTransferRef[e].totalChunks
      /\ incomingTransferRef[e].receivedCount <= incomingTransferRef[e].totalChunks
      /\ downloadProgress[e] \in 0..100

\* C27: after the i-th chunk (0-based) of a send has been sent, the reported
\* upload progress equals round(100 * (i + 1) / totalChunks): while a send is
\* between two chunks or has finished, with n chunks sent, the progress shown
\* is 100 * n / totalChunks rounded to the nearest integer, halves up.
C27_ProgressIsRounded ==
  \A s \in Invocations :
    sends[s].pc \in {"waiting", "delay", "done"} /\ sends[s].i >= 1
    /\ ~sends[s].failed
      => uploadProgress[sends[s].owner] = RoundHalfUp(100 * sends[s].i, sends[s].total)

\* C27, the other two parts: the progress shown never decreases while a send
\* runs, and it is 100 once the last chunk is out.
C27_ProgressMonotone ==
  [][\A s \in 1..MaxSends :
       ReadDone(s) \/ PollTimer(s) \/ DelayTimer(s)
         => /\ sends[s].pc # "reading"
                 => uploadProgress'[sends[s].owner] >= uploadProgress[sends[s].owner]
            /\ sends'[s].pc = "done" /\ sends'[s].total > 0
                 => uploadProgress'[sends[s].owner] = 100]_vars

\* The position of a chunk among the chunks its invocation has emitted
\* (0-based), and the index the chunk stands for: the one it carries in the
\* indexed variant, its position in the sequential one.
ChunkPosition(s, k) == Cardinality({ j \in ChunkEntries(s) : j < k })
ChunkIndex(s, k) ==
  IF sends[s].log[k].m.type = "file-chunk" THEN sends[s].log[k].m.index
  ELSE ChunkPosition(s, k)

\* C28: the i-th chunk sent is exactly the bytes [i * chunkSize,
\* min((i + 1) * chunkSize, totalSize)) of the file: it is non-empty and at
\* most chunkSize long, only the last chunk is shorter, chunk i + 1 starts
\* where chunk i ends, and in the indexed variant a chunk carries its index
\* (its position among the chunks when every send went out).
C28_ChunkRanges ==
  \A s \in Invocations : \A k \in ChunkEntries(s) :
    LET f == sends[s].file
        d == sends[s].log[k].m.data
        i == ChunkIndex(s, k)
    IN /\ i \in 0..(TotalChunks(f.size) - 1)
       /\ d.src = f.name
       /\ d.from = i * CHUNK_SIZE
       /\ d.to = Min((i + 1) * CHUNK_SIZE, f.size)
       /\ d.to > d.from
       /\ d.to - d.from <= CHUNK_SIZE
       /\ i < TotalChunks(f.size) - 1 => d.to - d.from = CHUNK_SIZE
       /\ ~sends[s].failed => i = ChunkPosition(s, k)
       /\ \A k2 \in ChunkEntries(s) :
            ChunkIndex(s, k2) = i + 1 => sends[s].log[k2].m.data.from = d.to

\* C28 witness: a finished send of the 200,000-byte file put out four
\* chunks, the last one shorter than the others.
C28_Witness ==
  \E s \in Invocations :
    /\ sends[s].pc = "done"
    /\ sends[s].file.size = 200000
    /\ Cardinality(ChunkEntries(s)) = 4
    /\ \E k \in ChunkEntries(s) :
         /\ sends[s].log[k].m.data.from = 3 * CHUNK_SIZE
         /\ sends[s].log[k].m.data.to = 200000

\* C29: the received-files list only grows: every step leaves the list of an
\* endpoint as it was or appends one file at its end, whatever the step is
\* (a Start, a chunk, an End, a channel close, a disconnect).
C29_ReceivedFilesGrow ==
  [][\A e \in Endpoints :
       \/ receivedFiles'[e] = receivedFiles[e]
       \/ /\ Len(receivedFiles'[e]) = Len(receivedFiles[e]) + 1
          /\ SubSeq(receivedFiles'[e], 1, Len(receivedFiles[e])) = receivedFiles[e]]_vars

\* C29 witness: two files were received, the second after a Start of its
\* own, and the endpoint has disconnected since.
C29_Witness ==
  /\ Len(receivedFiles["B"]) = 2
  /\ receivedFiles["B"][2].g.startSeq > receivedFiles["B"][1].g.startSeq
  /\ connectionStatus["B"] = "disconnected"
  /\ readyState["B"] = "closed"

\* C30: when sendFile is invoked again before an earlier invocation has sent
\* its End, no file the receiver completes contains chunks of both files:
\* all the chunks in the buffer it is assembled from are bytes of one file
\* (with the channel open at every invocation and every send).
C30_NoMixedFile ==
  (\A s \in Invocations : sends[s].openAtInvoke /\ ~sends[s].failed) =>
  \A e \in Endpoints : \A k \in 1..Len(receivedFiles[e]) :
    LET parts == receivedFiles[e][k].g.parts IN
    \A a, b \in 1..Len(parts) :
      parts[a] # Hole /\ parts[b] # Hole => parts[a].src = parts[b].src

\* C31: a close event delivered for a channel of an earlier session changes
\* neither the channel handle of the current session nor its connection
\* status.
C31_StaleCloseHarmless ==
  [][\A e \in Endpoints :
       StaleClose(e) => /\ dataChannelRef'[e] = dataChannelRef[e]
                        /\ connectionStatus'[e] = connectionStatus[e]]_vars

\* C32: with two data connections alive at once (broker), messages arriving
\* on different connections are reassembled separately: no completed file
\* holds chunks that came over two connections, and a Start on one
\* connection does not discard the transfer in progress on the other.
C32_ConnectionsSeparate ==
  /\ [](\A e \in Endpoints : \A k \in 1..Len(receivedFiles[e]) :
         LET parts == receivedFiles[e][k].g.parts IN
         \A a, b \in 1..Len(parts) :
           parts[a] # Hole /\ parts[b] # Hole => parts[a].src = parts[b].src)
  /\ [][\A e \in Endpoints :
          /\ incomingTransferRef[e] # Null
          /\ incomingTransferRef[e].name = WireFile.name
          /\ ExtraData(e, StartMessage(OtherFile, 0, extra[e].n + 1))
          => incomingTransferRef'[e] = incomingTransferRef[e]]_vars

\* C33: on a channel that stays open, with a transport that keeps draining,
\* every sendFile invocation eventually sends its End: it leaves every
\* backlog wait and every delay and finishes.
C33_SendsTerminate ==
  \A s \in 1..MaxOverlap :
    (s <= Len(sends)) ~>
      (IF s <= Len(sends)
       THEN /\ sends[s].pc = "done"
            /\ \E k \in 1..Len(sends[s].log) : sends[s].log[k].m.type = "file-end"
       ELSE FALSE)

\* C33 witness: a send of at least four chunks has finished and sent its
\* End while another invocation is still suspended.
C33_Witness ==
  \E s, t \in Invocations :
    /\ sends[s].pc = "done"
    /\ \E k \in 1..Len(sends[s].log) : sends[s].log[k].m.type = "file-end"
    /\ sends[s].total >= 4
    /\ sends[t].pc \in {"waiting", "delay"}

\* C34: a chunk or an End that arrives while no transfer is in progress is
\* ignored: the received-files list, the download progress and the (idle)
\* reassembler stay as they are and no error is set.
C34_IdleIgnores ==
  [][\A e \in Endpoints :
       /\ incomingTransferRef[e] = Null
       /\ \/ /\ sendBuf[Peer(e)] # << >>
             /\ Head(sendBuf[Peer(e)]).type \in {"binary", "file-chunk", "file-end"}
             /\ Drain(Peer(e))
          \/ \E m \in WireMessages(sentCount[Peer(e)] + 1) :
               m.type \in {"binary", "file-chunk", "file-end"} /\ Receive(e, m)
       => /\ receivedFiles'[e] = receivedFiles[e]
          /\ downloadProgress'[e] = downloadProgress[e]
          /\ incomingTransferRef'[e] = Null
          /\ error'[e] = error[e]]_vars

\* C34 witness: the broker send began before the connection was open, so
\* its Start was never sent; its chunks and its End went out and were all
\* delivered to a receiver that had no transfer in progress.
C34_Witness ==
  /\ variant = "broker"
  /\ Len(sends) = 1
  /\ sends[1].pc = "done"
  /\ sends[1].log # << >>
  /\ sends[1].log[1].m.type = "file-chunk"
  /\ sendBuf["A"] = << >>
  /\ readyState["B"] = "open"
  /\ incomingTransferRef["B"] = Null
  /\ receivedFiles["B"] = << >>

\* ---------------------------------------------------------- the server
\* a check that lets every request with a token cookie through
authMiddlewareAnyCookie(token) == token # NoCookie

\* authMiddleware: validTokens.has(token) lets the request through
authMiddleware(token) == token \in validTokens

\* authenticate(req, res) of the terminal routes: the same test
authenticate(token) == token \in validTokens

\* a lookup that finds a PTY for every session id ever handed out
HasSessionEver(sid) == sid \in Sids

\* sessions.get(sid) returns a PTY
HasSession(sid) == sid \in sessions

Respond(route, code) == response' = [route |-> route, status |-> code]

\* POST /api/login
Login(password, token) ==
  /\ IF password # PASSWORD
       THEN /\ Respond("login", 401)
            /\ UNCHANGED validTokens
       ELSE /\ validTokens' = validTokens \cup {token}
            /\ Respond("login", 200)
  /\ UNCHANGED << db, clock, queries, sessions, pty, client >>
  /\ UNCHANGED << transferVars, notesVars, hookVars >>

\* GET /api/auth: answers { authenticated: validTokens.has(token) }
Auth(token) ==
  /\ Respond("auth", 200)
  /\ UNCHANGED << validTokens, db, clock, queries, sessions, pty, client >>
  /\ UNCHANGED << transferVars, notesVars, hookVars >>

\* POST /api/claude
Claude(token, prompt) ==
  /\ (authMiddleware(token) /\ prompt # Blank) => queries < MaxQueries
  /\ IF ~authMiddleware(token)
       THEN /\ Respond("claude", 401)
            /\ UNCHANGED queries
       ELSE IF prompt = Blank
         THEN /\ Respond("claude", 400)
              /\ UNCHANGED queries
         ELSE /\ queries' = queries + 1
              /\ \E code \in {200, 500} : Respond("claude", code)
  /\ UNCHANGED << validTokens, db, clock, sessions, pty, client >>
  /\ UNCHANGED << transferVars, notesVars, hookVars >>

\* fs.appendFileSync(filePath, `[${new Date().toISOString()}] ${content}\n\n`)
AppendEntry(content) ==
  /\ clock' = clock + 1
  /\ db' = Append(db, Entry("server", clock + 1, content))

\* POST /api/storage
Storage(token, content) ==
  /\ (authMiddleware(token) /\ content # Blank) => Len(db) < MaxNotes
  /\ IF ~authMiddleware(token)
       THEN /\ Respond("storage", 401)
            /\ UNCHANGED << db, clock >>
       ELSE IF content = Blank
         THEN /\ Respond("storage", 400)
              /\ UNCHANGED << db, clock >>
         ELSE /\ AppendEntry(content)
              /\ Respond("storage", 200)
  /\ UNCHANGED << validTokens, queries, sessions, pty, client >>
  /\ UNCHANGED << transferVars, notesVars, hookVars >>

\* GET /api/terminal/stream; pty.spawn of bash, then of sh, may both fail
Stream(token, sid, spawned) ==
  /\ pty[sid].state = "none"
  /\ \A s \in Sids : s < sid => pty[s].state # "none"
  /\ IF ~(authMiddleware(token) /\ authenticate(token))
       THEN /\ Respond("stream", 401)
            /\ UNCHANGED << sessions, pty, client >>
       ELSE IF ~spawned
         THEN /\ Respond("stream", 500)
              /\ UNCHANGED << sessions, pty, client >>
         ELSE /\ pty' = [pty EXCEPT ![sid].state = "alive"]
              /\ sessions' = sessions \cup {sid}
              /\ client' = [client EXCEPT ![sid] = "open"]
              /\ Respond("stream", 200)
  /\ UNCHANGED << validTokens, db, clock, queries >>
  /\ UNCHANGED << transferVars, notesVars, hookVars >>

\* POST /api/terminal/input
Input(token, sid) ==
  /\ (authMiddleware(token) /\ authenticate(token) /\ HasSession(sid))
       => pty[sid].written < MaxIo
  /\ IF ~(authMiddleware(token) /\ authenticate(token))
       THEN /\ Respond("input", 401)
            /\ UNCHANGED pty
       ELSE IF ~HasSession(sid)
         THEN /\ Respond("input", 404)
              /\ UNCHANGED pty
         ELSE /\ pty' = [pty EXCEPT ![sid].written = @ + 1]
              /\ Respond("input", 200)
  /\ UNCHANGED << validTokens, db, clock, queries, sessions, client >>
  /\ UNCHANGED << transferVars, notesVars, hookVars >>

\* POST /api/terminal/resize
Resize(token, sid) ==
  /\ (authMiddleware(token) /\ authenticate(token) /\ HasSession(sid))
       => pty[sid].resized < MaxIo
  /\ IF ~(authMiddleware(token) /\ authenticate(token))
       THEN /\ Respond("resize", 401)
            /\ UNCHANGED pty
       ELSE IF ~HasSession(sid)
         THEN /\ Respond("resize", 404)
              /\ UNCHANGED pty
         ELSE /\ pty' = [pty EXCEPT ![sid].resized = @ + 1]
              /\ Respond("resize", 200)
  /\ UNCHANGED << validTokens, db, clock, queries, sessions, client >>
  /\ UNCHANGED << transferVars, notesVars, hookVars >>

\* term.onExit: the shell ended, by itself or killed; the stream is ended
PtyExit(sid) ==
  /\ pty[sid].state \in {"alive", "killed"}
  /\ pty' = [pty EXCEPT ![sid].state = "exited"]
  /\ client' = [client EXCEPT ![sid] = IF @ = "open" THEN "ended" ELSE @]
  /\ sessions' = sessions \ {sid}
  /\ UNCHANGED << validTokens, db, clock, queries, response >>
  /\ UNCHANGED << transferVars, notesVars, hookVars >>

\* req.on('close'): the stream's connection is gone; the shell is killed
ReqClose(sid) ==
  /\ client[sid] \in {"open", "ended"}
  /\ client' = [client EXCEPT ![sid] = "closed"]
  /\ sessions' = sessions \ {sid}
  /\ pty' = [pty EXCEPT ![sid].state = IF @ = "alive" THEN "killed" ELSE @]
  /\ UNCHANGED << validTokens, db, clock, queries, response >>
  /\ UNCHANGED << transferVars, notesVars, hookVars >>

InitServer == InitBroker

NextServer ==
  \/ \E password \in Passwords, token \in Tokens : Login(password, token)
  \/ \E token \in Cookies : Auth(token)
  \/ \E token \in Cookies, prompt \in Texts \cup {Blank} : Claude(token, prompt)
  \/ \E token \in Cookies, content \in Texts \cup {Blank} : Storage(token, content)
  \/ \E token \in Cookies, sid \in Sids, spawned \in BOOLEAN :
       Stream(token, sid, spawned)
  \/ \E token \in Cookies, sid \in Sids \cup {UnknownSid} : Input(token, sid)
  \/ \E token \in Cookies, sid \in Sids \cup {UnknownSid} : Resize(token, sid)
  \/ \E sid \in Sids : PtyExit(sid)
  \/ \E sid \in Sids : ReqClose(sid)

SpecServer == InitServer /\ [][NextServer]_vars

\* the requests C35 is about, made with the cookie token
Guarded(token) ==
  \/ \E prompt \in Texts \cup {Blank} : Claude(token, prompt)
  \/ \E content \in Texts \cup {Blank} : Storage(token, content)
  \/ \E sid \in Sids, spawned \in BOOLEAN : Stream(token, sid, spawned)
  \/ \E sid \in Sids \cup {UnknownSid} : Input(token, sid)
  \/ \E sid \in Sids \cup {UnknownSid} : Resize(token, sid)

C36_SessionsTrackLiveStreams ==
  /\ [](\A sid \in sessions : pty[sid].state = "alive" /\ client[sid] = "open")
  /\ [][\A sid \in Sids :
          (PtyExit(sid) \/ ReqClose(sid)) => sid \notin sessions']_vars
  /\ [][\A token \in Cookies, sid \in Sids \cup {UnknownSid} :
          (sid \notin sessions /\ (Input(token, sid) \/ Resize(token, sid))) =>
             /\ pty' = pty
             /\ token \in validTokens => response'.status = 404]_vars

\* one shell has exited and one stream was closed by its client, both ids
\* are out of the map, and the last input or resize request was answered 404
C36_Witness ==
  /\ \E sid \in Sids \ sessions : pty[sid].state = "exited" /\ pty[sid].written = 1
  /\ \E sid \in Sids \ sessions : pty[sid].state = "killed" /\ client[sid] = "closed"
  /\ response.status = 404

\* ------------------------------------------------------- the notes page
\* Array.prototype.indexOf + 1: the first position of x in s, 0 when absent
IndexOf(s, x) ==
  IF \E i \in 1..Len(s) : s[i] = x
    THEN CHOOSE i \in 1..Len(s) : s[i] = x /\ \A j \in 1..(i - 1) : s[j] # x
    ELSE 0

\* prev.filter((_, i) => i !== idx)
RemoveAt(s, i) == [k \in 1..(Len(s) - 1) |-> IF k < i THEN s[k] ELSE s[k + 1]]

\* prev.slice(0, -1)
AllButLast(s) == IF s = << >> THEN << >> ELSE SubSeq(s, 1, Len(s) - 1)

\* [...prev.slice(0, -1), data.content.trim()]
ReplaceLast(prev, new) == Append(AllButLast(prev), new)

\* [...prev, entry].sort(): the lines start with their time stamps
RECURSIVE SortedInsert(_, _)
SortedInsert(s, x) ==
  IF s = << >> THEN << x >>
  ELSE IF x.at < Head(s).at THEN << x >> \o s
  ELSE << Head(s) >> \o SortedInsert(Tail(s), x)

Posts == {r \in 1..Len(requests) : requests[r].kind = "post"}

Deletes == {r \in 1..Len(requests) : requests[r].kind = "delete"}

ServerUntouched == UNCHANGED << validTokens, queries, sessions, pty, client >>

\* textarea onChange
Type(t) ==
  /\ text # t
  /\ text' = t
  /\ UNCHANGED << entries, saving, requests >>
  /\ UNCHANGED << transferVars, serverVars, hookVars >>

\* Input.handleSubmit up to its await
handleSubmit ==
  /\ text # Blank
  /\ Cardinality(Posts) < MaxSubmits
  /\ saving' = TRUE
  /\ clock' = clock + 1
  /\ entries' = Append(entries, Entry("client", clock + 1, text))
  /\ text' = Blank
  /\ requests' = Append(requests, Request("post", Entry("client", clock + 1, text)))
  /\ UNCHANGED << db, response >>
  /\ ServerUntouched
  /\ UNCHANGED << transferVars, hookVars >>

\* the Save button: disabled={saving || !text.trim()}
ClickSave == ~saving /\ handleSubmit

\* textarea onKeyDown: Enter without Shift
PressEnter == handleSubmit

\* Input.handleDelete up to its await (the browser is online)
handleDelete(entry) ==
  /\ IndexOf(entries, entry) # 0
  /\ Cardinality(Deletes) < MaxDeletes
  /\ entries' = RemoveAt(entries, IndexOf(entries, entry))
  /\ requests' = Append(requests, Request("delete", entry))
  /\ UNCHANGED << text, saving >>
  /\ UNCHANGED << transferVars, serverVars, hookVars >>

Handled(r, ok, content, list) ==
  requests' = [requests EXCEPT ![r] =
                 [@ EXCEPT !.phase = "handled", !.ok = ok,
                           !.content = content, !.list = list]]

\* the server's GET, POST and DELETE /api/storage, for a logged-in browser
ServerHandles(r) ==
  /\ r \in 1..Len(requests)
  /\ requests[r].phase = "sent"
  /\ CASE requests[r].kind \in {"load", "refetch"} ->
            /\ Handled(r, TRUE, NoEntry, db)
            /\ Respond("storage", 200)
            /\ UNCHANGED << db, clock >>
       [] requests[r].kind = "post" ->
            /\ AppendEntry(requests[r].entry.text)
            /\ Handled(r, TRUE, Entry("server", clock + 1, requests[r].entry.text),
                       << >>)
            /\ Respond("storage", 200)
       [] requests[r].kind = "delete" ->
            IF IndexOf(db, requests[r].entry) = 0
              THEN /\ Handled(r, FALSE, NoEntry, << >>)
                   /\ Respond("storage", 404)
                   /\ UNCHANGED << db, clock >>
              ELSE /\ db' = RemoveAt(db, IndexOf(db, requests[r].entry))
                   /\ Handled(r, TRUE, NoEntry,
                              RemoveAt(db, IndexOf(db, requests[r].entry)))
                   /\ Respond("storage", 200)
                   /\ UNCHANGED clock
  /\ ServerUntouched
  /\ UNCHANGED << text, entries, saving >>
  /\ UNCHANGED << transferVars, hookVars >>

Settled(r) == requests' = [requests EXCEPT ![r].phase = "done"]

\* the component's code after an await that returned a response
Response(r) ==
  /\ r \in 1..Len(requests)
  /\ requests[r].phase = "handled"
  /\ CASE requests[r].kind \in {"load", "refetch"} ->
            /\ entries' = requests[r].list
            /\ Settled(r)
            /\ UNCHANGED saving
       [] requests[r].kind = "post" ->
            /\ entries' = ReplaceLast(entries, requests[r].content)
            /\ saving' = FALSE
            /\ Settled(r)
       [] requests[r].kind = "delete" ->
            IF requests[r].ok
              THEN /\ entries' = requests[r].list
                   /\ Settled(r)
                   /\ UNCHANGED saving
              ELSE /\ requests' = Append([requests EXCEPT ![r].phase = "done"],
                                         Request("refetch", NoEntry))
                   /\ UNCHANGED << entries, saving >>
  /\ UNCHANGED text
  /\ UNCHANGED << transferVars, serverVars, hookVars >>

\* the component's code after a fetch that was rejected (the network failed
\* before or after the server handled the request)
Rejected(r) ==
  /\ r \in 1..Len(requests)
  /\ requests[r].phase \in {"sent", "handled"}
  /\ Settled(r)
  /\ CASE requests[r].kind \in {"load", "refetch"} ->
            UNCHANGED << entries, saving >>
       [] requests[r].kind = "post" ->
            /\ saving' = FALSE
            /\ UNCHANGED entries
       [] requests[r].kind = "delete" ->
            /\ entries' = IF IndexOf(entries, requests[r].entry) # 0 THEN entries
                          ELSE SortedInsert(entries, requests[r].entry)
            /\ UNCHANGED saving
  /\ UNCHANGED text
  /\ UNCHANGED << transferVars, serverVars, hookVars >>

InitNotes == InitBroker

NextNotes ==
  \/ \E t \in Texts : Type(t)
  \/ ClickSave
  \/ PressEnter
  \/ \E i \in 1..Len(entries) : handleDelete(entries[i])
  \/ \E r \in 1..(1 + MaxSubmits + 2 * MaxDeletes) : ServerHandles(r)
  \/ \E r \in 1..(1 + MaxSubmits + 2 * MaxDeletes) : Response(r)
  \/ \E r \in 1..(1 + MaxSubmits + 2 * MaxDeletes) : Rejected(r)

SpecNotes == InitNotes /\ [][NextNotes]_vars

\* C37: when the response to a submit's POST is applied, the optimistic entry
\* of that submit leaves the list and every other entry of the list stays.
C37_ResponseReplacesOwnEntry ==
  [][\A r \in 1..Len(requests) :
       (requests[r].kind = "post" /\ Response(r)) =>
          /\ IndexOf(entries', requests[r].entry) = 0
          /\ \A i \in 1..Len(entries) :
               entries[i] # requests[r].entry => IndexOf(entries', entries[i]) # 0]_vars

\* ---------------------------------------------------- the terminal page
\* terminals, observers and sources list what connect() has created, in
\* order; termRef, observerRef, sseRef and sidRef hold positions in them.
Kept(seq, dead) == {k \in 1..Len(seq) : seq[k] # dead}

Close(seq, k, dead) == IF k = 0 THEN seq ELSE [seq EXCEPT ![k] = dead]

\* fetch("/api/terminal/<route>", { body: { sid, ... } })
Fetch(route, sid) == [route |-> route, sid |-> sid]

\* useTerminal.cleanup
cleanup ==
  /\ observers' = Close(observers, observerRef, "disconnected")
  /\ observerRef' = 0
  /\ sources' = Close(sources, sseRef, "closed")
  /\ sseRef' = 0
  /\ sidRef' = 0
  /\ terminals' = Close(terminals, termRef, "disposed")
  /\ termRef' = 0

\* useTerminal.connect (the container is mounted)
connect ==
  /\ status \notin {"connecting", "connected"}
  /\ Len(terminals) < MaxConnects
  /\ status' = "connecting"
  /\ terminals' = Append(terminals, "open")
  /\ termRef' = Len(terminals) + 1
  /\ sources' = Append(sources, "open")
  /\ sseRef' = Len(sources) + 1
  /\ observers' = Append(observers, "observing")
  /\ observerRef' = Len(observers) + 1
  /\ UNCHANGED << sidRef, fetches >>
  /\ UNCHANGED << transferVars, serverVars, notesVars >>

\* sse.addEventListener("session"): the first event of a stream
SessionEvent(k) ==
  /\ k \in 1..Len(sources)
  /\ sources[k] = "open"
  /\ sources' = [sources EXCEPT ![k] = "session"]
  /\ sidRef' = k
  /\ status' = "connected"
  /\ \E dims \in BOOLEAN :
       /\ dims => Len(fetches) < MaxFetches
       /\ fetches' = IF dims THEN Append(fetches, Fetch("resize", k)) ELSE fetches
  /\ UNCHANGED << termRef, sseRef, observerRef, terminals, observers >>
  /\ UNCHANGED << transferVars, serverVars, notesVars >>

\* what the exit listener and sse.onerror both do
StreamEnded(k) ==
  /\ status' = "disconnected"
  /\ sources' = [sources EXCEPT ![k] = "closed"]
  /\ sseRef' = 0
  /\ sidRef' = 0
  /\ UNCHANGED << termRef, observerRef, terminals, observers, fetches >>
  /\ UNCHANGED << transferVars, serverVars, notesVars >>

\* sse.addEventListener("exit"): the shell has exited
ExitEvent(k) ==
  /\ k \in 1..Len(sources)
  /\ sources[k] = "session"
  /\ StreamEnded(k)

\* sse.onerror
ErrorEvent(k) ==
  /\ k \in 1..Len(sources)
  /\ sources[k] \in {"open", "session"}
  /\ StreamEnded(k)

\* term.onData of the k-th terminal: a key typed into it
onData(k) ==
  /\ k \in 1..Len(terminals)
  /\ terminals[k] = "open"
  /\ sidRef # 0
  /\ Len(fetches) < MaxFetches
  /\ fetches' = Append(fetches, Fetch("input", sidRef))
  /\ UNCHANGED << status, termRef, sseRef, sidRef, observerRef, terminals,
                  observers, sources >>
  /\ UNCHANGED << transferVars, serverVars, notesVars >>

\* the callback of the k-th ResizeObserver: the container changed size
Resized(k) ==
  /\ k \in 1..Len(observers)
  /\ observers[k] = "observing"
  /\ sidRef # 0
  /\ Len(fetches) < MaxFetches
  /\ fetches' = Append(fetches, Fetch("resize", sidRef))
  /\ UNCHANGED << status, termRef, sseRef, sidRef, observerRef, terminals,
                  observers, sources >>
  /\ UNCHANGED << transferVars, serverVars, notesVars >>

\* useTerminal.disconnect
disconnect ==
  /\ cleanup
  /\ status' = "disconnected"
  /\ UNCHANGED fetches
  /\ UNCHANGED << transferVars, serverVars, notesVars >>

InitHook == InitBroker

NextHook ==
  \/ connect
  \/ \E k \in 1..MaxConnects : SessionEvent(k)
  \/ \E k \in 1..MaxConnects : ExitEvent(k)
  \/ \E k \in 1..MaxConnects : ErrorEvent(k)
  \/ \E k \in 1..MaxConnects : onData(k)
  \/ \E k \in 1..MaxConnects : Resized(k)
  \/ disconnect

SpecHook == InitHook /\ [][NextHook]_vars

\* C38: at most one terminal is open in the container, at most one stream is
\* open and at most one resize observer observes the container, and status is
\* "connected" only while the stream in sseRef is open and sidRef holds an id.
C38_OneLiveTerminal ==
  /\ Cardinality(Kept(terminals, "disposed")) <= 1
  /\ Cardinality(Kept(sources, "closed")) <= 1
  /\ Cardinality(Kept(observers, "disconnected")) <= 1
  /\ status = "connected" =>
        /\ sseRef # 0
        /\ sources[sseRef] # "closed"
        /\ sidRef # 0

====
